---- MODULE Spec2Model ----
(***************************************************************************)
(* MyPay payment gateway: the Transaction state machine driven by          *)
(* PaymentService, the webhook pipeline of WebhookService, the audit log   *)
(* written by AuditService and the Redis idempotency cache of the          *)
(* @idempotent decorator, as served by the Flask endpoints of app/api.     *)
(*                                                                         *)
(* Every HTTP request is served by a worker.  A worker runs the handler    *)
(* one database commit (or one provider call) at a time, so that two       *)
(* workers interleave exactly where the code commits, and a worker may     *)
(* die between two commits.                                                *)
(***************************************************************************)
EXTENDS Integers, Sequences, FiniteSets, TLC

\* ------------------------------------------------------------------ bounds
MaxTx == 2
MaxEvents == 2
MaxAudit == 5
MaxCalls == 2
MaxFaults == 1
MaxRetryCount == 2

\* ---------------------------------------------------------- value domains
Workers == {"w1", "w2"}
Keys == {"k1", "k2"}
NoKey == "absent"
ApiKeys == {"absent", "invalid", "valid"}
Amounts == {10, 20}
RefSeq == <<"r1", "r2", "r3">>
Refs == {RefSeq[n] : n \in 1..Len(RefSeq)}
NoRef == "null"

\* app/models/transaction.py: TransactionStatus
PENDING == "pending"
PROCESSING == "processing"
COMPLETED == "completed"
FAILED == "failed"
REFUNDED == "refunded"
TransactionStatus == {PENDING, PROCESSING, COMPLETED, FAILED, REFUNDED}

\* app/providers/__init__.py: PROVIDERS
PROVIDERS == {"cpay", "mpesa"}

\* webhook_service.py:21-25
MAX_RETRY_ATTEMPTS == 5
RETRY_SCHEDULE == <<60, 300, 900, 3600, 21600>>

\* a timestamp column that is NULL
NoTime == -1

\* the status vocabulary an adapter result carries (providers/base.py)
AdapterStatus == {"pending", "completed", "failed", "refunded"}

VARIABLES
    transactions,    \* table transactions: sequence of rows, id = index
    webhook_events,  \* table webhook_events: sequence of rows, id = index
    audit_logs,      \* table audit_logs: sequence of rows in insertion order
    redis,           \* idempotency cache: key -> cached response or Null
    pc,              \* per worker: the place in the handler it has reached
    loc,             \* per worker: the handler's local variables
    resp,            \* per worker: the last HTTP response it returned
    first_resp,      \* per key: first response given since the key was last absent
    handler_runs,    \* per key: wrapped-handler executions since the key was last absent
    adapter_calls,   \* how often each adapter method was called, per transaction
    faults           \* crashes and failed audit inserts so far

vars == <<transactions, webhook_events, audit_logs, redis, pc, loc, resp,
          first_resp, handler_runs, adapter_calls, faults>>

Null == [null |-> TRUE]

TxIds == 1..Len(transactions)
EventIds == 1..Len(webhook_events)

\* ------------------------------------------------------------------ helpers

\* Transaction.query.filter_by(idempotency_key=...).first()
FindByKey(key) ==
    IF \E i \in TxIds : transactions[i].idempotency_key = key
    THEN CHOOSE i \in TxIds : transactions[i].idempotency_key = key
              /\ \A j \in TxIds : transactions[j].idempotency_key = key => i <= j
    ELSE 0

\* Transaction.query.filter_by(provider_transaction_id=...).first()
FindByRef(ref) ==
    IF \E i \in TxIds : transactions[i].provider_transaction_id = ref
    THEN CHOOSE i \in TxIds : transactions[i].provider_transaction_id = ref
              /\ \A j \in TxIds : transactions[j].provider_transaction_id = ref => i <= j
    ELSE 0

\* the row an AuditService.log_event call inserts
AuditRow(tx, event_type, old_status, new_status, ev) ==
    [transaction_id |-> tx, event_type |-> event_type,
     old_status |-> old_status, new_status |-> new_status,
     webhook_event_id |-> ev]

\* the event type f'payment.{status}'
PaymentEvent(status) ==
    CASE status = "pending" -> "payment.pending"
      [] status = "processing" -> "payment.processing"
      [] status = "completed" -> "payment.completed"
      [] status = "failed" -> "payment.failed"
      [] status = "refunded" -> "payment.refunded"

\* transaction_schema.dump(transaction)
TransactionDump(i) ==
    [id |-> i,
     idempotency_key |-> transactions[i].idempotency_key,
     provider |-> transactions[i].provider,
     provider_transaction_id |-> transactions[i].provider_transaction_id,
     amount |-> transactions[i].amount,
     status |-> transactions[i].status,
     completed_at |-> transactions[i].completed_at]

\* a JSON body as the function from its keys to their values
SuccessBody(dump) == ("success" :> "true") @@ ("data" :> dump)
ErrorBody(msg) == ("success" :> "false") @@ ("error" :> msg)
MissingKeyBody ==
    ("error" :> "Missing Idempotency-Key header") @@
    ("message" :> "All mutation requests require an Idempotency-Key header")

NoRequest == [endpoint |-> "none", key |-> NoKey, api_key |-> "absent"]

\* mpesa_provider.py:145: no token cached; the handler holds no adapter object
NoToken == "None"
NoAdapter == "none"

IdleLoc == [req |-> NoRequest, tx |-> 0, ev |-> 0, old_status |-> "none",
            status |-> "none", provider |-> "none", amount |-> 0, raised |-> FALSE,
            signature |-> "absent", raw_payload |-> FALSE,
            batch |-> {}, count |-> 0, invoked_at |-> 0, adapter |-> NoAdapter]

NoResponse == [endpoint |-> "none", key |-> NoKey, api_key |-> "absent",
               code |-> 0, body |-> ErrorBody("none"), replayed |-> FALSE]

Response(req, code, body, replayed) ==
    [endpoint |-> req.endpoint, key |-> req.key,
     api_key |-> req.api_key, code |-> code, body |-> body, replayed |-> replayed]

Methods == {"initialize_payment", "verify_payment", "refund_payment"}

\* -------------------------------------------------------------------- Init
Init ==
    /\ transactions = << >>
    /\ webhook_events = << >>
    /\ audit_logs = << >>
    /\ redis = [k \in Keys |-> Null]
    /\ pc = [w \in Workers |-> "idle"]
    /\ loc = [w \in Workers |-> IdleLoc]
    /\ resp = [w \in Workers |-> NoResponse]
    /\ first_resp = [k \in Keys |-> Null]
    /\ handler_runs = [k \in Keys |-> 0]
    /\ adapter_calls = [i \in 1..MaxTx |-> [m \in Methods |-> 0]]
    /\ faults = 0

\* ------------------------------------------------- the @idempotent decorator

\* IdempotencyService.cache_response: the body is stored with the status code
\* added under the key _status_code (idempotency_service.py:73-74)
CachedPayload(body, code) == ("_status_code" :> code) @@ body

\* a replay that is always answered 200
ReplayStatus_always_200(cached) == 200

\* the status code a replay is answered with: cached.get('_status_code', 200)
ReplayStatus(cached) ==
    IF "_status_code" \in DOMAIN cached THEN cached["_status_code"] ELSE 200

\* the body a replay is answered with: jsonify(cached)
ReplayBody(cached) == cached

\* a cache that never holds a response
get_cached_response_miss(key) == Null

\* IdempotencyService.get_cached_response
get_cached_response(key) == redis[key]

\* the worker answers the request without caching anything
Respond(w, req, code, body, replayed) ==
    /\ resp' = [resp EXCEPT ![w] = Response(req, code, body, replayed)]
    /\ first_resp' =
         IF req.key \in Keys /\ first_resp[req.key] = Null /\ ~replayed
                /\ req.endpoint \in {"initialize", "refund"}
         THEN [first_resp EXCEPT ![req.key] = [code |-> code, body |-> body]]
         ELSE first_resp

\* the wrapped handler returned (body, code): cache it and answer
\* (idempotency_service.py:66-76)
CacheAndReturn(w, req, code, body) ==
    /\ redis' = [redis EXCEPT ![req.key] = CachedPayload(body, code)]
    /\ Respond(w, req, code, body, FALSE)

\* the worker answers and is idle again
Finish(w, code, body) ==
    /\ Respond(w, loc[w].req, code, body, FALSE)
    /\ pc' = [pc EXCEPT ![w] = "idle"]
    /\ loc' = [loc EXCEPT ![w] = IdleLoc]

\* ------------------------------------------- POST /payments/initialize

\* audit rows a worker at this place of a handler may still insert
AuditNeed(at) ==
    CASE at \in {"ip_check", "ip_insert", "ip_audit_initiated"} -> 2
      [] at \in {"ip_provider", "ip_audit_processing", "ip_audit_failed"} -> 1
      [] at \in {"v_provider", "v_audit", "v_audit_failed"} -> 1
      [] at \in {"r_audit_initiated"} -> 2
      [] at \in {"r_provider", "r_audit_completed", "r_audit_failed"} -> 1
      [] at \in {"rw_verify", "pw_load", "pw_commit", "pw_audit"} -> 1
      [] OTHER -> 0

RECURSIVE SumNeed(_)
SumNeed(ws) ==
    IF ws = {} THEN 0
    ELSE LET w == CHOOSE x \in ws : TRUE IN AuditNeed(pc[w]) + SumNeed(ws \ {w})

\* a handler that may insert n audit rows starts only while the table has room
AuditHeadroom(n) == Len(audit_logs) + SumNeed(Workers) + n <= MaxAudit

InFlightInserts == Cardinality({v \in Workers : pc[v] \in {"ip_check", "ip_insert"}})

\* api/payments.py initialize_payment behind @idempotent: the decorator's key
\* and cache checks, then schema validation
HttpInitialize(w, key, api_key, valid, provider, amount) ==
    /\ pc[w] = "idle"
    /\ Len(transactions) + InFlightInserts < MaxTx
    /\ AuditHeadroom(2)
    /\ LET req == [endpoint |-> "initialize", key |-> key, api_key |-> api_key]
       IN
       IF key = NoKey
       THEN /\ Respond(w, req, 400, MissingKeyBody, FALSE)
            /\ UNCHANGED <<redis, pc, loc, handler_runs>>
       ELSE IF get_cached_response(key) # Null
       THEN /\ Respond(w, req, ReplayStatus(get_cached_response(key)),
                       ReplayBody(get_cached_response(key)), TRUE)
            /\ UNCHANGED <<redis, pc, loc, handler_runs>>
       ELSE IF ~valid
       THEN /\ CacheAndReturn(w, req, 400, ErrorBody("Validation error"))
            /\ handler_runs' = [handler_runs EXCEPT ![key] = @ + 1]
            /\ UNCHANGED <<pc, loc>>
       ELSE /\ pc' = [pc EXCEPT ![w] = "ip_check"]
            /\ loc' = [loc EXCEPT ![w] =
                         [IdleLoc EXCEPT !.req = req, !.provider = provider,
                                         !.amount = amount]]
            /\ handler_runs' = [handler_runs EXCEPT ![key] = @ + 1]
            /\ UNCHANGED <<redis, resp, first_resp>>
    /\ UNCHANGED <<transactions, webhook_events, audit_logs, adapter_calls, faults>>

\* PaymentService.initialize_payment called directly (tests, tasks)
initialize_payment(w, key, provider, amount) ==
    /\ pc[w] = "idle"
    /\ Len(transactions) + InFlightInserts < MaxTx
    /\ AuditHeadroom(2)
    /\ pc' = [pc EXCEPT ![w] = "ip_check"]
    /\ loc' = [loc EXCEPT ![w] =
                 [IdleLoc EXCEPT !.req = [endpoint |-> "initialize_payment", key |-> key,
                                          api_key |-> "absent"],
                                 !.provider = provider, !.amount = amount]]
    /\ UNCHANGED <<transactions, webhook_events, audit_logs, redis, resp, first_resp,
                   handler_runs, adapter_calls, faults>>

\* initialize_payment without the lookup of lines 39-43: every call goes on to
\* the insert
IP_Check_no_lookup(w) ==
    /\ pc[w] = "ip_check"
    /\ pc' = [pc EXCEPT ![w] = "ip_insert"]
    /\ UNCHANGED <<transactions, webhook_events, audit_logs, redis, loc, resp,
                   first_resp, handler_runs, adapter_calls, faults>>

\* PaymentService.initialize_payment, lines 39-43: the idempotency-key lookup
IP_Check(w) ==
    /\ pc[w] = "ip_check"
    /\ LET existing == FindByKey(loc[w].req.key)
       IN IF existing # 0
          THEN /\ loc' = [loc EXCEPT ![w].tx = existing]
               /\ pc' = [pc EXCEPT ![w] = "ip_return"]
          ELSE /\ pc' = [pc EXCEPT ![w] = "ip_insert"]
               /\ loc' = loc
    /\ UNCHANGED <<transactions, webhook_events, audit_logs, redis, resp, first_resp,
                   handler_runs, adapter_calls, faults>>

\* the row initialize_payment creates (lines 46-58)
NewTransaction(key, provider, amount) ==
    [idempotency_key |-> key, provider |-> provider,
     provider_transaction_id |-> NoRef, provider_response |-> {},
     amount |-> amount, status |-> PENDING, completed_at |-> FALSE]

\* the insert as it would go without the UNIQUE index on idempotency_key
IP_Insert_no_unique(w) ==
    /\ pc[w] = "ip_insert"
    /\ transactions' = Append(transactions,
           NewTransaction(loc[w].req.key, loc[w].provider, loc[w].amount))
    /\ loc' = [loc EXCEPT ![w].tx = Len(transactions) + 1]
    /\ pc' = [pc EXCEPT ![w] = "ip_audit_initiated"]
    /\ UNCHANGED <<webhook_events, audit_logs, redis, resp, first_resp,
                   handler_runs, adapter_calls, faults>>

\* lines 46-61: insert the PENDING row and commit; the UNIQUE index on
\* idempotency_key rejects the commit when the key was stored meanwhile
IP_Insert(w) ==
    /\ pc[w] = "ip_insert"
    /\ IF FindByKey(loc[w].req.key) # 0
       THEN /\ loc' = [loc EXCEPT ![w].raised = TRUE]
            /\ pc' = [pc EXCEPT ![w] = "ip_return"]
            /\ UNCHANGED transactions
       ELSE /\ transactions' = Append(transactions,
                  NewTransaction(loc[w].req.key, loc[w].provider, loc[w].amount))
            /\ loc' = [loc EXCEPT ![w].tx = Len(transactions) + 1]
            /\ pc' = [pc EXCEPT ![w] = "ip_audit_initiated"]
    /\ UNCHANGED <<webhook_events, audit_logs, redis, resp, first_resp,
                   handler_runs, adapter_calls, faults>>

\* AuditService.log_event (audit_service.py:48-68): the insert commits, or the
\* commit fails, is rolled back and the exception is raised again
log_event(row, ok) ==
    IF ok
    THEN /\ audit_logs' = Append(audit_logs, row)
         /\ faults' = faults
    ELSE /\ faults < MaxFaults
         /\ faults' = faults + 1
         /\ audit_logs' = audit_logs

\* lines 63-73: audit payment.initiated; a failure leaves the handler
IP_AuditInitiated(w) ==
    /\ pc[w] = "ip_audit_initiated"
    /\ \E ok \in BOOLEAN :
         /\ log_event(AuditRow(loc[w].tx, "payment.initiated", "none", "none", 0), ok)
         /\ IF ok
            THEN /\ pc' = [pc EXCEPT ![w] = "ip_provider"]
                 /\ loc' = loc
            ELSE /\ pc' = [pc EXCEPT ![w] = "ip_return"]
                 /\ loc' = [loc EXCEPT ![w].raised = TRUE]
    /\ UNCHANGED <<transactions, webhook_events, redis, resp, first_resp,
                   handler_runs, adapter_calls>>

\* lines 108-111: the except branch marks the transaction FAILED and commits
MarkFailed(i) ==
    [transactions EXCEPT ![i].status = FAILED, ![i].provider_response = {"error"}]

\* the transaction ids an adapter may answer with for the i-th transaction: one
\* no transaction carries yet, or one an earlier transaction already carries
ProviderRefs(i) == {RefSeq[n] : n \in 1..i}

\* lines 78-93 and 108-111: resolve the adapter, call it, commit the outcome
IP_Provider(w) ==
    /\ pc[w] = "ip_provider"
    /\ LET i == loc[w].tx IN
       \/ \* get_provider raises ValueError for a name outside the registry
          /\ loc[w].provider \notin PROVIDERS
          /\ transactions' = MarkFailed(i)
          /\ pc' = [pc EXCEPT ![w] = "ip_audit_failed"]
          /\ UNCHANGED adapter_calls
       \/ \* the adapter raises
          /\ loc[w].provider \in PROVIDERS
          /\ adapter_calls[i]["initialize_payment"] < MaxCalls
          /\ adapter_calls' = [adapter_calls EXCEPT ![i]["initialize_payment"] = @ + 1]
          /\ transactions' = MarkFailed(i)
          /\ pc' = [pc EXCEPT ![w] = "ip_audit_failed"]
       \/ \* the adapter returns a result carrying its transaction id
          /\ loc[w].provider \in PROVIDERS
          /\ adapter_calls[i]["initialize_payment"] < MaxCalls
          /\ adapter_calls' = [adapter_calls EXCEPT ![i]["initialize_payment"] = @ + 1]
          /\ \E r \in ProviderRefs(i) :
               transactions' = [transactions EXCEPT
                   ![i].provider_transaction_id = r,
                   ![i].provider_response = {"result"},
                   ![i].status = PROCESSING]
          /\ pc' = [pc EXCEPT ![w] = "ip_audit_processing"]
    /\ UNCHANGED <<webhook_events, audit_logs, redis, loc, resp, first_resp,
                   handler_runs, faults>>

\* lines 95-103: audit payment.processing; the call sits inside the try block,
\* so a failing insert lands in the except branch (lines 108-111)
IP_AuditProcessing(w) ==
    /\ pc[w] = "ip_audit_processing"
    /\ \E ok \in BOOLEAN :
         /\ log_event(AuditRow(loc[w].tx, "payment.processing", "none", "none", 0), ok)
         /\ IF ok
            THEN /\ pc' = [pc EXCEPT ![w] = "ip_return"]
                 /\ UNCHANGED transactions
            ELSE /\ pc' = [pc EXCEPT ![w] = "ip_audit_failed"]
                 /\ transactions' = MarkFailed(loc[w].tx)
    /\ UNCHANGED <<webhook_events, redis, loc, resp, first_resp,
                   handler_runs, adapter_calls>>

\* lines 113-123: audit payment.failed, then re-raise
IP_AuditFailed(w) ==
    /\ pc[w] = "ip_audit_failed"
    /\ \E ok \in BOOLEAN :
         log_event(AuditRow(loc[w].tx, "payment.failed", "none", "none", 0), ok)
    /\ pc' = [pc EXCEPT ![w] = "ip_return"]
    /\ loc' = [loc EXCEPT ![w].raised = TRUE]
    /\ UNCHANGED <<transactions, webhook_events, redis, resp, first_resp,
                   handler_runs, adapter_calls>>

\* api/payments.py:62-78 and the decorator's tail: 201 with the dumped
\* transaction, or 500 for any exception; either answer is cached
HttpInitializeReturn(w) ==
    /\ pc[w] = "ip_return"
    /\ loc[w].req.endpoint = "initialize"
    /\ IF loc[w].raised
       THEN CacheAndReturn(w, loc[w].req, 500, ErrorBody("exception"))
       ELSE CacheAndReturn(w, loc[w].req, 201, SuccessBody(TransactionDump(loc[w].tx)))
    /\ pc' = [pc EXCEPT ![w] = "idle"]
    /\ loc' = [loc EXCEPT ![w] = IdleLoc]
    /\ UNCHANGED <<transactions, webhook_events, audit_logs, handler_runs,
                   adapter_calls, faults>>

\* initialize_payment returns the transaction to a direct caller, or raises
IP_Return(w) ==
    /\ pc[w] = "ip_return"
    /\ loc[w].req.endpoint = "initialize_payment"
    /\ IF loc[w].raised
       THEN Finish(w, 0, ErrorBody("exception"))
       ELSE Finish(w, 0, SuccessBody(TransactionDump(loc[w].tx)))
    /\ UNCHANGED <<transactions, webhook_events, audit_logs, redis, handler_runs,
                   adapter_calls, faults>>

\* -------------------------------------------- POST /payments/{id}/verify

\* verify_payment that returns at once for COMPLETED only
HttpVerify_only_completed(w, id, api_key) ==
    /\ pc[w] = "idle"
    /\ AuditHeadroom(1)
    /\ LET req == [endpoint |-> "verify", key |-> NoKey, api_key |-> api_key]
       IN
       IF id \notin TxIds
       THEN /\ Respond(w, req, 404, ErrorBody("not found"), FALSE)
            /\ UNCHANGED <<pc, loc>>
       ELSE IF transactions[id].status = COMPLETED
       THEN /\ Respond(w, req, 200, SuccessBody(TransactionDump(id)), FALSE)
            /\ UNCHANGED <<pc, loc>>
       ELSE /\ pc' = [pc EXCEPT ![w] = "v_provider"]
            /\ loc' = [loc EXCEPT ![w] =
                         [IdleLoc EXCEPT !.req = req, !.tx = id,
                                         !.old_status = transactions[id].status]]
            /\ UNCHANGED <<resp, first_resp>>
    /\ UNCHANGED <<transactions, webhook_events, audit_logs, redis, handler_runs,
                   adapter_calls, faults>>

\* api/payments.py verify_payment and PaymentService.verify_payment lines
\* 138-145: load the row; unknown id is 404, COMPLETED and REFUNDED return at once
HttpVerify(w, id, api_key) ==
    /\ pc[w] = "idle"
    /\ AuditHeadroom(1)
    /\ LET req == [endpoint |-> "verify", key |-> NoKey, api_key |-> api_key]
       IN
       IF id \notin TxIds
       THEN /\ Respond(w, req, 404, ErrorBody("not found"), FALSE)
            /\ UNCHANGED <<pc, loc>>
       ELSE IF transactions[id].status \in {COMPLETED, REFUNDED}
       THEN /\ Respond(w, req, 200, SuccessBody(TransactionDump(id)), FALSE)
            /\ UNCHANGED <<pc, loc>>
       ELSE /\ pc' = [pc EXCEPT ![w] = "v_provider"]
            /\ loc' = [loc EXCEPT ![w] =
                         [IdleLoc EXCEPT !.req = req, !.tx = id,
                                         !.old_status = transactions[id].status]]
            /\ UNCHANGED <<resp, first_resp>>
    /\ UNCHANGED <<transactions, webhook_events, audit_logs, redis, handler_runs,
                   adapter_calls, faults>>

\* lines 155-161: the status the adapter reports is applied to the loaded row
VerifyApply(i, new_status) ==
    [transactions EXCEPT
       ![i].status = IF new_status = "completed" THEN COMPLETED
                     ELSE IF new_status = "failed" THEN FAILED
                     ELSE @,
       ![i].completed_at = IF new_status = "completed" THEN TRUE ELSE @,
       ![i].provider_response = {"result"}]

\* lines 147-162: resolve the adapter, ask it, commit what it reports
V_Provider(w) ==
    /\ pc[w] = "v_provider"
    /\ LET i == loc[w].tx IN
       \/ \* get_provider raises
          /\ transactions[i].provider \notin PROVIDERS
          /\ pc' = [pc EXCEPT ![w] = "v_audit_failed"]
          /\ UNCHANGED <<transactions, adapter_calls>>
       \/ \* the adapter raises
          /\ transactions[i].provider \in PROVIDERS
          /\ adapter_calls[i]["verify_payment"] < MaxCalls
          /\ adapter_calls' = [adapter_calls EXCEPT ![i]["verify_payment"] = @ + 1]
          /\ pc' = [pc EXCEPT ![w] = "v_audit_failed"]
          /\ UNCHANGED transactions
       \/ \* the adapter returns a status
          /\ transactions[i].provider \in PROVIDERS
          /\ adapter_calls[i]["verify_payment"] < MaxCalls
          /\ adapter_calls' = [adapter_calls EXCEPT ![i]["verify_payment"] = @ + 1]
          /\ \E new_status \in AdapterStatus :
               transactions' = VerifyApply(i, new_status)
          /\ pc' = [pc EXCEPT ![w] = "v_audit"]
    /\ UNCHANGED <<webhook_events, audit_logs, redis, loc, resp, first_resp,
                   handler_runs, faults>>

\* lines 164-177: one audit row when the status differs from the loaded one
V_Audit(w) ==
    /\ pc[w] = "v_audit"
    /\ LET i == loc[w].tx IN
       IF loc[w].old_status # transactions[i].status
       THEN \E ok \in BOOLEAN :
              /\ log_event(AuditRow(i, PaymentEvent(transactions[i].status), loc[w].old_status,
                                    transactions[i].status, 0), ok)
              /\ IF ok
                 THEN Finish(w, 200, SuccessBody(TransactionDump(i)))
                 ELSE /\ pc' = [pc EXCEPT ![w] = "v_audit_failed"]
                      /\ UNCHANGED <<loc, resp, first_resp>>
       ELSE /\ Finish(w, 200, SuccessBody(TransactionDump(i)))
            /\ UNCHANGED <<audit_logs, faults>>
    /\ UNCHANGED <<transactions, webhook_events, redis, handler_runs, adapter_calls>>

\* lines 179-185: audit payment.verification_failed and re-raise (HTTP 500)
V_AuditFailed(w) ==
    /\ pc[w] = "v_audit_failed"
    /\ \E ok \in BOOLEAN :
         log_event(AuditRow(loc[w].tx, "payment.verification_failed", "none", "none", 0), ok)
    /\ Finish(w, 500, ErrorBody("exception"))
    /\ UNCHANGED <<transactions, webhook_events, redis, handler_runs, adapter_calls>>

\* ------------------------------------------------ GET /payments/{id}

\* api/payments.py get_payment: a read
HttpGet(w, id, api_key) ==
    /\ pc[w] = "idle"
    /\ LET req == [endpoint |-> "get", key |-> NoKey, api_key |-> api_key]
       IN IF id \in TxIds
          THEN Respond(w, req, 200, SuccessBody(TransactionDump(id)), FALSE)
          ELSE Respond(w, req, 404, ErrorBody("not found"), FALSE)
    /\ UNCHANGED <<transactions, webhook_events, audit_logs, redis, pc, loc,
                   handler_runs, adapter_calls, faults>>

\* --------------------------------------------- POST /payments/{id}/refund

\* api/payments.py refund_payment behind @idempotent, and
\* PaymentService.refund_payment lines 206-212
HttpRefund(w, key, api_key, id) ==
    /\ pc[w] = "idle"
    /\ AuditHeadroom(2)
    /\ LET req == [endpoint |-> "refund", key |-> key, api_key |-> api_key]
       IN
       IF key = NoKey
       THEN /\ Respond(w, req, 400, MissingKeyBody, FALSE)
            /\ UNCHANGED <<redis, pc, loc, handler_runs>>
       ELSE IF get_cached_response(key) # Null
       THEN /\ Respond(w, req, ReplayStatus(get_cached_response(key)),
                       ReplayBody(get_cached_response(key)), TRUE)
            /\ UNCHANGED <<redis, pc, loc, handler_runs>>
       ELSE IF id \notin TxIds
       THEN /\ CacheAndReturn(w, req, 400, ErrorBody("not found"))
            /\ handler_runs' = [handler_runs EXCEPT ![key] = @ + 1]
            /\ UNCHANGED <<pc, loc>>
       ELSE IF transactions[id].status # COMPLETED
       THEN /\ CacheAndReturn(w, req, 400, ErrorBody("Can only refund completed transactions"))
            /\ handler_runs' = [handler_runs EXCEPT ![key] = @ + 1]
            /\ UNCHANGED <<pc, loc>>
       ELSE /\ pc' = [pc EXCEPT ![w] = "r_audit_initiated"]
            /\ loc' = [loc EXCEPT ![w] =
                         [IdleLoc EXCEPT !.req = req, !.tx = id,
                                         !.old_status = transactions[id].status]]
            /\ handler_runs' = [handler_runs EXCEPT ![key] = @ + 1]
            /\ UNCHANGED <<redis, resp, first_resp>>
    /\ UNCHANGED <<transactions, webhook_events, audit_logs, adapter_calls, faults>>

\* refund_payment without the status test of lines 211-212
refund_payment_any_status(w, id) ==
    /\ pc[w] = "idle"
    /\ AuditHeadroom(2)
    /\ LET req == [endpoint |-> "refund_payment", key |-> NoKey, api_key |-> "absent"]
       IN
       IF id \notin TxIds
       THEN /\ Respond(w, req, 0, ErrorBody("not found"), FALSE)
            /\ UNCHANGED <<pc, loc>>
       ELSE /\ pc' = [pc EXCEPT ![w] = "r_audit_initiated"]
            /\ loc' = [loc EXCEPT ![w] =
                         [IdleLoc EXCEPT !.req = req, !.tx = id,
                                         !.old_status = transactions[id].status]]
            /\ UNCHANGED <<resp, first_resp>>
    /\ UNCHANGED <<transactions, webhook_events, audit_logs, redis, handler_runs,
                   adapter_calls, faults>>

\* PaymentService.refund_payment called directly (lines 206-212)
refund_payment(w, id) ==
    /\ pc[w] = "idle"
    /\ AuditHeadroom(2)
    /\ LET req == [endpoint |-> "refund_payment", key |-> NoKey, api_key |-> "absent"]
       IN
       IF id \notin TxIds
       THEN /\ Respond(w, req, 0, ErrorBody("not found"), FALSE)
            /\ UNCHANGED <<pc, loc>>
       ELSE IF transactions[id].status # COMPLETED
       THEN /\ Respond(w, req, 0, ErrorBody("Can only refund completed transactions"), FALSE)
            /\ UNCHANGED <<pc, loc>>
       ELSE /\ pc' = [pc EXCEPT ![w] = "r_audit_initiated"]
            /\ loc' = [loc EXCEPT ![w] =
                         [IdleLoc EXCEPT !.req = req, !.tx = id,
                                         !.old_status = transactions[id].status]]
            /\ UNCHANGED <<resp, first_resp>>
    /\ UNCHANGED <<transactions, webhook_events, audit_logs, redis, handler_runs,
                   adapter_calls, faults>>

\* lines 214-222: audit refund.initiated; a failure leaves the handler
R_AuditInitiated(w) ==
    /\ pc[w] = "r_audit_initiated"
    /\ \E ok \in BOOLEAN :
         /\ log_event(AuditRow(loc[w].tx, "refund.initiated", "none", "none", 0), ok)
         /\ IF ok
            THEN /\ pc' = [pc EXCEPT ![w] = "r_provider"]
                 /\ loc' = loc
            ELSE /\ pc' = [pc EXCEPT ![w] = "r_return"]
                 /\ loc' = [loc EXCEPT ![w].raised = TRUE, ![w].status = "error"]
    /\ UNCHANGED <<transactions, webhook_events, redis, resp, first_resp,
                   handler_runs, adapter_calls>>

\* the adapters whose refund_payment can return: CPayProvider.refund_payment
\* always raises RefundError (cpay_provider.py:239-260)
RefundCapable == {"mpesa"}

\* refund_payment whose except branch marks the transaction FAILED, the way
\* the except branch of initialize_payment does
R_Provider_mark_failed(w) ==
    /\ pc[w] = "r_provider"
    /\ LET i == loc[w].tx IN
       \/ /\ transactions[i].provider \notin PROVIDERS
          /\ pc' = [pc EXCEPT ![w] = "r_audit_failed"]
          /\ loc' = [loc EXCEPT ![w].status = "ValueError"]
          /\ transactions' = MarkFailed(i)
          /\ UNCHANGED adapter_calls
       \/ /\ transactions[i].provider \in PROVIDERS
          /\ adapter_calls[i]["refund_payment"] < MaxCalls
          /\ adapter_calls' = [adapter_calls EXCEPT ![i]["refund_payment"] = @ + 1]
          /\ pc' = [pc EXCEPT ![w] = "r_audit_failed"]
          /\ loc' = [loc EXCEPT ![w].status = "RefundError"]
          /\ transactions' = MarkFailed(i)
       \/ /\ transactions[i].provider \in RefundCapable
          /\ adapter_calls[i]["refund_payment"] < MaxCalls
          /\ adapter_calls' = [adapter_calls EXCEPT ![i]["refund_payment"] = @ + 1]
          /\ transactions' = [transactions EXCEPT
                 ![i].status = REFUNDED,
                 ![i].provider_response = @ \cup {"refund"}]
          /\ pc' = [pc EXCEPT ![w] = "r_audit_completed"]
          /\ loc' = loc
    /\ UNCHANGED <<webhook_events, audit_logs, redis, resp, first_resp,
                   handler_runs, faults>>

\* lines 224-237: resolve the adapter, call it, commit REFUNDED when it returns
R_Provider(w) ==
    /\ pc[w] = "r_provider"
    /\ LET i == loc[w].tx IN
       \/ \* get_provider raises ValueError
          /\ transactions[i].provider \notin PROVIDERS
          /\ pc' = [pc EXCEPT ![w] = "r_audit_failed"]
          /\ loc' = [loc EXCEPT ![w].status = "ValueError"]
          /\ UNCHANGED <<transactions, adapter_calls>>
       \/ \* the adapter raises RefundError
          /\ transactions[i].provider \in PROVIDERS
          /\ adapter_calls[i]["refund_payment"] < MaxCalls
          /\ adapter_calls' = [adapter_calls EXCEPT ![i]["refund_payment"] = @ + 1]
          /\ pc' = [pc EXCEPT ![w] = "r_audit_failed"]
          /\ loc' = [loc EXCEPT ![w].status = "RefundError"]
          /\ UNCHANGED transactions
       \/ \* the adapter returns
          /\ transactions[i].provider \in RefundCapable
          /\ adapter_calls[i]["refund_payment"] < MaxCalls
          /\ adapter_calls' = [adapter_calls EXCEPT ![i]["refund_payment"] = @ + 1]
          /\ transactions' = [transactions EXCEPT
                 ![i].status = REFUNDED,
                 ![i].provider_response = @ \cup {"refund"}]
          /\ pc' = [pc EXCEPT ![w] = "r_audit_completed"]
          /\ loc' = loc
    /\ UNCHANGED <<webhook_events, audit_logs, redis, resp, first_resp,
                   handler_runs, faults>>

\* lines 239-244: audit refund.completed; inside the try block
R_AuditCompleted(w) ==
    /\ pc[w] = "r_audit_completed"
    /\ \E ok \in BOOLEAN :
         /\ log_event(AuditRow(loc[w].tx, "refund.completed", "none", "none", 0), ok)
         /\ pc' = [pc EXCEPT ![w] = IF ok THEN "r_return" ELSE "r_audit_failed"]
    /\ UNCHANGED <<transactions, webhook_events, redis, loc, resp, first_resp,
                   handler_runs, adapter_calls>>

\* lines 249-255: audit refund.failed and re-raise; when this insert fails,
\* its exception is the one that leaves the handler
R_AuditFailed(w) ==
    /\ pc[w] = "r_audit_failed"
    /\ \E ok \in BOOLEAN :
         /\ log_event(AuditRow(loc[w].tx, "refund.failed", "none", "none", 0), ok)
         /\ loc' = [loc EXCEPT ![w].raised = TRUE,
                               ![w].status = IF ok /\ @ \in {"ValueError", "RefundError"}
                                             THEN @ ELSE "error"]
    /\ pc' = [pc EXCEPT ![w] = "r_return"]
    /\ UNCHANGED <<transactions, webhook_events, redis, resp, first_resp,
                   handler_runs, adapter_calls>>

\* api/payments.py:166-188 and the decorator's tail: 200 with the dumped
\* transaction; a ValueError is answered 400, any other exception 500
HttpRefundReturn(w) ==
    /\ pc[w] = "r_return"
    /\ loc[w].req.endpoint = "refund"
    /\ IF loc[w].raised /\ loc[w].status = "ValueError"
       THEN CacheAndReturn(w, loc[w].req, 400, ErrorBody("exception"))
       ELSE IF loc[w].raised
       THEN CacheAndReturn(w, loc[w].req, 500, ErrorBody("exception"))
       ELSE CacheAndReturn(w, loc[w].req, 200, SuccessBody(TransactionDump(loc[w].tx)))
    /\ pc' = [pc EXCEPT ![w] = "idle"]
    /\ loc' = [loc EXCEPT ![w] = IdleLoc]
    /\ UNCHANGED <<transactions, webhook_events, audit_logs, handler_runs,
                   adapter_calls, faults>>

\* refund_payment returns the transaction to a direct caller, or raises
R_Return(w) ==
    /\ pc[w] = "r_return"
    /\ loc[w].req.endpoint = "refund_payment"
    /\ IF loc[w].raised
       THEN Finish(w, 0, ErrorBody("exception"))
       ELSE Finish(w, 0, SuccessBody(TransactionDump(loc[w].tx)))
    /\ UNCHANGED <<transactions, webhook_events, audit_logs, redis, handler_runs,
                   adapter_calls, faults>>

\* ------------------------------------------------- the webhook pipeline

\* PaymentProvider.handle_webhook (providers/base.py:76-90)
handle_webhook(payload) ==
    [transaction_id |-> payload.ref,
     event_type |-> IF payload.status = "refunded" THEN "payment.reversed"
                    ELSE PaymentEvent(payload.status),
     status |-> payload.status]

\* verify_webhook_signature: CPayProvider answers True for every signature
\* (cpay_provider.py:262-282), MPesaProvider compares the HMAC digest
\* (mpesa_provider.py:310-341)
verify_webhook_signature(provider, signature) ==
    IF provider = "cpay" THEN TRUE ELSE signature \in {"absent", "good"}

\* the row receive_webhook creates (webhook_service.py:47-54); created_at is
\* kept as age, the seconds elapsed since it (datetime.utcnow() - created_at)
NewWebhookEvent(provider, payload, signature) ==
    [transaction_id |-> 0, provider |-> provider, payload |-> payload,
     signature |-> signature, verified |-> FALSE, processed |-> FALSE,
     retry_count |-> 0, error_message |-> "null", processed_at |-> NoTime,
     age |-> 0]

\* datetime.utcnow(), in seconds since the first event was received
Clock == IF webhook_events = << >> THEN 0 ELSE webhook_events[1].age

\* WebhookService.receive_webhook lines 46-57: store the event and commit
receive_webhook(w, endpoint, provider, payload, signature, raw_payload) ==
    /\ pc[w] = "idle"
    /\ Len(webhook_events) < MaxEvents
    /\ AuditHeadroom(1)
    /\ webhook_events' = Append(webhook_events,
                                NewWebhookEvent(provider, payload, signature))
    /\ pc' = [pc EXCEPT ![w] = "rw_verify"]
    /\ loc' = [loc EXCEPT ![w] =
                 [IdleLoc EXCEPT !.req = [endpoint |-> endpoint, key |-> NoKey,
                                          api_key |-> "absent"],
                                 !.ev = Len(webhook_events) + 1,
                                 !.provider = provider,
                                 !.signature = signature,
                                 !.raw_payload = raw_payload]]
    /\ UNCHANGED <<transactions, audit_logs, redis, resp, first_resp, handler_runs,
                   adapter_calls, faults>>

\* the signature header api/webhooks.py reads for the provider (lines 46-54)
HeaderSignature(provider, header) ==
    IF provider \in {"stripe", "cpay"} THEN header ELSE "absent"

\* POST /webhooks/{provider}: receive, then process (api/webhooks.py:59-69)
HttpWebhook(w, provider, payload, header) ==
    receive_webhook(w, "webhook", provider, payload,
                    HeaderSignature(provider, header), TRUE)

\* WebhookService.receive_webhook called with the caller's own signature and
\* raw body (tasks, tests)
ServiceReceiveWebhook(w, provider, payload, signature, raw_payload) ==
    receive_webhook(w, "receive_webhook", provider, payload, signature, raw_payload)

\* receive_webhook that marks every event verified
RW_Verify_accept_all(w) ==
    /\ pc[w] = "rw_verify"
    /\ webhook_events' = [webhook_events EXCEPT ![loc[w].ev].verified = TRUE]
    /\ IF loc[w].req.endpoint = "webhook"
       THEN /\ pc' = [pc EXCEPT ![w] = "pw_load"]
            /\ UNCHANGED <<loc, resp, first_resp>>
       ELSE Finish(w, 0, ErrorBody("none"))
    /\ UNCHANGED <<transactions, audit_logs, redis, handler_runs, adapter_calls, faults>>

\* lines 59-79: verify the signature when both it and the raw body are given
RW_Verify(w) ==
    /\ pc[w] = "rw_verify"
    /\ LET e == loc[w].ev IN
       /\ webhook_events' =
            IF loc[w].signature # "absent" /\ loc[w].raw_payload
            THEN IF loc[w].provider \in PROVIDERS
                 THEN [webhook_events EXCEPT ![e].verified =
                          verify_webhook_signature(loc[w].provider, loc[w].signature)]
                 ELSE [webhook_events EXCEPT ![e].error_message =
                          "Signature verification failed"]
            ELSE [webhook_events EXCEPT ![e].verified = TRUE]
       /\ IF loc[w].req.endpoint = "webhook"
          THEN /\ pc' = [pc EXCEPT ![w] = "pw_load"]
               /\ UNCHANGED <<loc, resp, first_resp>>
          ELSE Finish(w, 0, ErrorBody("none"))
    /\ UNCHANGED <<transactions, audit_logs, redis, handler_runs, adapter_calls, faults>>

\* POST /webhooks/events/{id}/retry: process_webhook on a stored event
HttpRetryWebhook(w, e) ==
    /\ pc[w] = "idle"
    /\ e \in EventIds
    /\ webhook_events[e].retry_count < MaxRetryCount
    /\ AuditHeadroom(1)
    /\ pc' = [pc EXCEPT ![w] = "pw_load"]
    /\ loc' = [loc EXCEPT ![w] =
                 [IdleLoc EXCEPT !.req = [endpoint |-> "retry", key |-> NoKey,
                                          api_key |-> "absent"],
                                 !.ev = e]]
    /\ UNCHANGED <<transactions, webhook_events, audit_logs, redis, resp, first_resp,
                   handler_runs, adapter_calls, faults>>

\* an endpoint that answers 400 when process_webhook returned False
ProcessAnswer_400_on_failure(w, success) ==
    IF success
    THEN Finish(w, 200, ("success" :> "true") @@ ("message" :> "processed"))
    ELSE Finish(w, 400, ("success" :> "false") @@ ("message" :> "failed"))

\* what the caller does with the boolean process_webhook returns:
\* POST /webhooks/{provider} answers 200 either way, the retry endpoint 200 or
\* 400, and retry_failed_webhooks counts a success and goes on with its loop
\* (webhook_service.py:211-213)
ProcessAnswer(w, success) ==
    IF loc[w].req.endpoint = "retry_failed"
    THEN /\ pc' = [pc EXCEPT ![w] = "rf_loop"]
         /\ loc' = [loc EXCEPT ![w].count = IF success THEN @ + 1 ELSE @,
                               ![w].ev = 0, ![w].tx = 0,
                               ![w].old_status = "none", ![w].status = "none"]
         /\ UNCHANGED <<resp, first_resp>>
    ELSE IF success
    THEN Finish(w, IF loc[w].req.endpoint = "process_webhook" THEN 0 ELSE 200,
                ("success" :> "true") @@ ("message" :> "processed"))
    ELSE Finish(w, CASE loc[w].req.endpoint = "webhook" -> 200
                     [] loc[w].req.endpoint = "process_webhook" -> 0
                     [] OTHER -> 400,
                ("success" :> "false") @@ ("message" :> "failed"))

\* a failure exit that records the message without counting the attempt
RecordFailure_no_count(e, msg) ==
    [webhook_events EXCEPT ![e].error_message = msg]

\* the failure exits of process_webhook: error_message, retry_count += 1, commit
RecordFailure(e, msg) ==
    [webhook_events EXCEPT ![e].error_message = msg, ![e].retry_count = @ + 1]

\* process_webhook without the verified test of lines 101-105
PW_Load_unverified_ok(w) ==
    /\ pc[w] = "pw_load"
    /\ LET e == loc[w].ev
           ev == webhook_events[e]
           result == handle_webhook(ev.payload)
           tx == FindByRef(result.transaction_id)
       IN
       IF ev.processed
       THEN /\ ProcessAnswer(w, TRUE)
            /\ UNCHANGED webhook_events
       ELSE IF ev.provider \notin PROVIDERS
       THEN /\ webhook_events' = RecordFailure(e, "Unknown provider")
            /\ ProcessAnswer(w, FALSE)
       ELSE IF tx = 0
       THEN /\ webhook_events' = RecordFailure(e, "Transaction not found")
            /\ ProcessAnswer(w, FALSE)
       ELSE /\ pc' = [pc EXCEPT ![w] = "pw_commit"]
            /\ loc' = [loc EXCEPT ![w].tx = tx,
                                  ![w].old_status = transactions[tx].status,
                                  ![w].status = result.status]
            /\ UNCHANGED <<webhook_events, resp, first_resp>>
    /\ UNCHANGED <<transactions, audit_logs, redis, handler_runs, adapter_calls, faults>>

\* WebhookService.process_webhook lines 92-129: load the event, derive the
\* transaction id and status, find the transaction
PW_Load(w) ==
    /\ pc[w] = "pw_load"
    /\ LET e == loc[w].ev
           ev == webhook_events[e]
           result == handle_webhook(ev.payload)
           tx == FindByRef(result.transaction_id)
       IN
       IF ev.processed
       THEN /\ ProcessAnswer(w, TRUE)
            /\ UNCHANGED webhook_events
       ELSE IF ~ev.verified
       THEN /\ webhook_events' = RecordFailure(e, "Webhook signature not verified")
            /\ ProcessAnswer(w, FALSE)
       ELSE IF ev.provider \notin PROVIDERS
       THEN /\ webhook_events' = RecordFailure(e, "Unknown provider")
            /\ ProcessAnswer(w, FALSE)
       ELSE IF tx = 0
       THEN /\ webhook_events' = RecordFailure(e, "Transaction not found")
            /\ ProcessAnswer(w, FALSE)
       ELSE /\ pc' = [pc EXCEPT ![w] = "pw_commit"]
            /\ loc' = [loc EXCEPT ![w].tx = tx,
                                  ![w].old_status = transactions[tx].status,
                                  ![w].status = result.status]
            /\ UNCHANGED <<webhook_events, resp, first_resp>>
    /\ UNCHANGED <<transactions, audit_logs, redis, handler_runs, adapter_calls, faults>>

\* the derived status applied without stamping completed_at
WebhookApply_no_completed_at(i, status) ==
    [transactions EXCEPT
       ![i].status = IF status = "completed" THEN COMPLETED
                     ELSE IF status = "failed" THEN FAILED
                     ELSE IF status = "refunded" THEN REFUNDED
                     ELSE @,
       ![i].provider_response = @ \cup {"webhook_data"}]

\* lines 134-149: the derived status is applied to the transaction
WebhookApply(i, status) ==
    [transactions EXCEPT
       ![i].status = IF status = "completed" THEN COMPLETED
                     ELSE IF status = "failed" THEN FAILED
                     ELSE IF status = "refunded" THEN REFUNDED
                     ELSE @,
       ![i].completed_at = IF status = "completed" THEN TRUE ELSE @,
       ![i].provider_response = @ \cup {"webhook_data"}]

\* lines 131-155: link the event, apply the status, mark processed, commit
PW_Commit(w) ==
    /\ pc[w] = "pw_commit"
    /\ transactions' = WebhookApply(loc[w].tx, loc[w].status)
    /\ webhook_events' = [webhook_events EXCEPT
          ![loc[w].ev].transaction_id = loc[w].tx,
          ![loc[w].ev].processed = TRUE,
          ![loc[w].ev].processed_at = Clock]
    /\ pc' = [pc EXCEPT ![w] = "pw_audit"]
    /\ UNCHANGED <<audit_logs, redis, loc, resp, first_resp, handler_runs,
                   adapter_calls, faults>>

\* lines 157-183: the audit row; a failing insert is caught by the except
\* branch, which counts a retry and returns False
PW_Audit(w) ==
    /\ pc[w] = "pw_audit"
    /\ LET e == loc[w].ev
           i == loc[w].tx
       IN \E ok \in BOOLEAN :
            /\ log_event(AuditRow(i, handle_webhook(webhook_events[e].payload).event_type,
                                  loc[w].old_status, transactions[i].status, e), ok)
            /\ IF ok
               THEN /\ ProcessAnswer(w, TRUE)
                    /\ UNCHANGED webhook_events
               ELSE /\ webhook_events' = RecordFailure(e, "audit insert failed")
                    /\ ProcessAnswer(w, FALSE)
    /\ UNCHANGED <<transactions, redis, handler_runs, adapter_calls>>

\* WebhookService.process_webhook called on a stored event by hand
process_webhook(w, e) ==
    /\ pc[w] = "idle"
    /\ e \in EventIds
    /\ webhook_events[e].retry_count < MAX_RETRY_ATTEMPTS + MaxRetryCount - 1
    /\ AuditHeadroom(1)
    /\ pc' = [pc EXCEPT ![w] = "pw_load"]
    /\ loc' = [loc EXCEPT ![w] =
                 [IdleLoc EXCEPT !.req = [endpoint |-> "process_webhook", key |-> NoKey,
                                          api_key |-> "absent"],
                                 !.ev = e]]
    /\ UNCHANGED <<transactions, webhook_events, audit_logs, redis, resp, first_resp,
                   handler_runs, adapter_calls, faults>>

\* the query that gives up one attempt early
FailedWebhooks_stop_early ==
    {e \in EventIds : /\ ~webhook_events[e].processed
                      /\ webhook_events[e].retry_count < MAX_RETRY_ATTEMPTS - 1}

\* the query with retry_count <= MAX_RETRY_ATTEMPTS
FailedWebhooks_inclusive ==
    {e \in EventIds : /\ ~webhook_events[e].processed
                      /\ webhook_events[e].retry_count <= MAX_RETRY_ATTEMPTS}

\* the query of retry_failed_webhooks (webhook_service.py:193-196)
FailedWebhooks ==
    {e \in EventIds : /\ ~webhook_events[e].processed
                      /\ webhook_events[e].retry_count < MAX_RETRY_ATTEMPTS}

\* WebhookService.retry_failed_webhooks lines 192-198: run the query
retry_failed_webhooks(w) ==
    /\ pc[w] = "idle"
    /\ AuditHeadroom(Cardinality(FailedWebhooks))
    /\ pc' = [pc EXCEPT ![w] = "rf_loop"]
    /\ loc' = [loc EXCEPT ![w] =
                 [IdleLoc EXCEPT !.req = [endpoint |-> "retry_failed", key |-> NoKey,
                                          api_key |-> "absent"],
                                 !.batch = FailedWebhooks,
                                 !.invoked_at = Clock]]
    /\ UNCHANGED <<transactions, webhook_events, audit_logs, redis, resp, first_resp,
                   handler_runs, adapter_calls, faults>>

\* the first interval of the schedule used for every attempt
RetryInterval_first_only(retry_count) == RETRY_SCHEDULE[1]

\* lines 202-206: the interval that must have passed since created_at
RetryInterval(retry_count) ==
    IF retry_count >= Len(RETRY_SCHEDULE)
    THEN RETRY_SCHEDULE[Len(RETRY_SCHEDULE)]
    ELSE RETRY_SCHEDULE[retry_count + 1]

\* lines 200-219: one round of the loop over the queried events (the query
\* has no ORDER BY, so the order is the database's), or the return of the count
RF_Loop(w) ==
    /\ pc[w] = "rf_loop"
    /\ IF loc[w].batch = {}
       THEN Finish(w, 0, ("success" :> "true") @@ ("processed_count" :> loc[w].count))
       ELSE /\ \E e \in loc[w].batch :
                 IF webhook_events[e].age >= RetryInterval(webhook_events[e].retry_count)
                 THEN /\ pc' = [pc EXCEPT ![w] = "pw_load"]
                      /\ loc' = [loc EXCEPT ![w].ev = e, ![w].batch = @ \ {e}]
                 ELSE /\ pc' = pc
                      /\ loc' = [loc EXCEPT ![w].batch = @ \ {e}]
            /\ UNCHANGED <<resp, first_resp>>
    /\ UNCHANGED <<transactions, webhook_events, audit_logs, redis, handler_runs,
                   adapter_calls, faults>>

\* marking an event processed without stamping processed_at
mark_webhook_as_processed_no_stamp(w, e) ==
    /\ pc[w] = "idle"
    /\ e \in EventIds
    /\ webhook_events' = [webhook_events EXCEPT ![e].processed = TRUE]
    /\ UNCHANGED <<transactions, audit_logs, redis, pc, loc, resp, first_resp,
                   handler_runs, adapter_calls, faults>>

\* WebhookService.mark_webhook_as_processed (webhook_service.py:277-290)
mark_webhook_as_processed(w, e) ==
    /\ pc[w] = "idle"
    /\ e \in EventIds
    /\ webhook_events' = [webhook_events EXCEPT ![e].processed = TRUE,
                                                ![e].processed_at = Clock]
    /\ UNCHANGED <<transactions, audit_logs, redis, pc, loc, resp, first_resp,
                   handler_runs, adapter_calls, faults>>

\* ------------------------------------------------------------ environment

\* the instants at which an interval of the retry schedule has just elapsed
\* for the oldest event
Instants == {RETRY_SCHEDULE[n] : n \in 1..Len(RETRY_SCHEDULE)}

\* time passes until the oldest event is t seconds old
Tick(t) ==
    /\ webhook_events # << >>
    /\ t > Clock
    /\ webhook_events' = [e \in EventIds |->
                            [webhook_events[e] EXCEPT !.age = @ + (t - Clock)]]
    /\ UNCHANGED <<transactions, audit_logs, redis, pc, loc, resp, first_resp,
                   handler_runs, adapter_calls, faults>>

\* the TTL of a cached response elapses (redis_client.set(..., ex=ttl))
Expire(k) ==
    /\ redis[k] # Null
    /\ redis' = [redis EXCEPT ![k] = Null]
    /\ first_resp' = [first_resp EXCEPT ![k] = Null]
    /\ handler_runs' = [handler_runs EXCEPT ![k] = 0]
    /\ UNCHANGED <<transactions, webhook_events, audit_logs, pc, loc, resp,
                   adapter_calls, faults>>

\* a worker dies between two commits: what it had not committed is lost
Crash(w) ==
    /\ pc[w] # "idle"
    /\ faults < MaxFaults
    /\ faults' = faults + 1
    /\ pc' = [pc EXCEPT ![w] = "idle"]
    /\ loc' = [loc EXCEPT ![w] = IdleLoc]
    /\ UNCHANGED <<transactions, webhook_events, audit_logs, redis, resp,
                   first_resp, handler_runs, adapter_calls>>

\* ---------------------------------------------------------- specification

\* the steps of PaymentService.initialize_payment
InitializeSteps(w) ==
    \/ IP_Check(w)
    \/ IP_Insert(w)
    \/ IP_AuditInitiated(w)
    \/ IP_Provider(w)
    \/ IP_AuditProcessing(w)
    \/ IP_AuditFailed(w)

\* the steps of PaymentService.verify_payment
VerifySteps(w) ==
    \/ V_Provider(w)
    \/ V_Audit(w)
    \/ V_AuditFailed(w)

\* the steps of PaymentService.refund_payment
RefundSteps(w) ==
    \/ R_AuditInitiated(w)
    \/ R_Provider(w)
    \/ R_AuditCompleted(w)
    \/ R_AuditFailed(w)

\* the steps of WebhookService.receive_webhook and process_webhook
WebhookSteps(w) ==
    \/ RW_Verify(w)
    \/ PW_Load(w)
    \/ PW_Commit(w)
    \/ PW_Audit(w)

\* PaymentService called by one worker, one call at a time
Next ==
    \/ \E amount \in Amounts : initialize_payment("w1", "k1", "mpesa", amount)
    \/ initialize_payment("w1", "k2", "stripe", 10)
    \/ \E id \in 1..MaxTx : HttpVerify("w1", id, "valid")
    \/ \E id \in 1..MaxTx : refund_payment("w1", id)
    \/ InitializeSteps("w1")
    \/ IP_Return("w1")
    \/ VerifySteps("w1")
    \/ RefundSteps("w1")
    \/ R_Return("w1")
    \/ Crash("w1")

Spec == Init /\ [][Next]_vars

\* the webhook pipeline next to the payments it reports on
NextWebhook ==
    \/ \E provider \in {"mpesa", "stripe"} :
         initialize_payment("w1", "k1", provider, 10)
    \/ \E provider \in {"mpesa"}, payload \in [ref : {"r1", "r2"}, status : AdapterStatus] :
         HttpWebhook("w1", provider, payload, "absent")
    \/ \E e \in 1..MaxEvents : HttpRetryWebhook("w1", e)
    \/ InitializeSteps("w1")
    \/ IP_Return("w1")
    \/ WebhookSteps("w1")
    \/ Crash("w1")

SpecWebhook == Init /\ [][NextWebhook]_vars

\* the HTTP facade of the payments API served by one worker
NextHttp ==
    \/ \E key \in Keys \cup {NoKey}, api_key \in ApiKeys :
         \/ HttpInitialize("w1", key, api_key, TRUE, "cpay", 10)
         \/ HttpInitialize("w1", key, api_key, FALSE, "none", 0)
    \/ \E id \in 1..MaxTx, api_key \in ApiKeys : HttpGet("w1", id, api_key)
    \/ InitializeSteps("w1")
    \/ HttpInitializeReturn("w1")
    \/ Crash("w1")
    \/ \E k \in Keys : Expire(k)

SpecHttp == Init /\ [][NextHttp]_vars

\* POST /payments/{id}/refund served by one worker, for a payment made through
\* an adapter that refuses refunds (cpay) or one that accepts them (mpesa)
NextRefund ==
    \/ \E provider \in PROVIDERS : initialize_payment("w1", "k1", provider, 10)
    \/ \E id \in 1..MaxTx : HttpVerify("w1", id, "valid")
    \/ \E key \in Keys \cup {NoKey}, id \in 1..MaxTx : HttpRefund("w1", key, "valid", id)
    \/ InitializeSteps("w1")
    \/ IP_Return("w1")
    \/ VerifySteps("w1")
    \/ RefundSteps("w1")
    \/ HttpRefundReturn("w1")
    \/ \E k \in Keys : Expire(k)

SpecRefund == Init /\ [][NextRefund]_vars

\* the deliveries receive_webhook is called with: provider, signature, and
\* whether the raw body is passed along
Deliveries ==
    { <<"mpesa", "absent", TRUE>>, <<"mpesa", "bad", TRUE>>,
      <<"mpesa", "bad", FALSE>>, <<"cpay", "bad", TRUE>>,
      <<"stripe", "good", TRUE>> }

\* WebhookService.receive_webhook and process_webhook called one after the
\* other by one worker, for events that report the payment r1 as completed
NextReceive ==
    \/ initialize_payment("w1", "k1", "mpesa", 10)
    \/ \E d \in Deliveries :
         ServiceReceiveWebhook("w1", d[1], [ref |-> "r1", status |-> "completed"],
                               d[2], d[3])
    \/ \E e \in 1..MaxEvents : HttpRetryWebhook("w1", e)
    \/ InitializeSteps("w1")
    \/ IP_Return("w1")
    \/ WebhookSteps("w1")

SpecReceive == Init /\ [][NextReceive]_vars

\* the retry scheduler and the manual operations on stored events, one call at
\* a time. The state after POST /webhooks/stripe stored an event with an invalid
\* signature and its processing failed, and a callback of mpesa for reference
\* r1 arrived before any transaction carries r1: stored by POST /webhooks/mpesa
\* (first attempt failed) or by receive_webhook alone (no attempt yet)
InitRetry ==
    /\ transactions = << >>
    /\ webhook_events \in
         { << [NewWebhookEvent("stripe", [ref |-> "r1", status |-> "completed"], "bad")
                 EXCEPT !.retry_count = 1,
                        !.error_message = "Webhook signature not verified"],
              [NewWebhookEvent("mpesa", [ref |-> "r1", status |-> "completed"], "absent")
                 EXCEPT !.verified = TRUE,
                        !.retry_count = n,
                        !.error_message = IF n = 0 THEN "null"
                                          ELSE "Transaction not found"] >> :
           n \in {0, 1} }
    /\ audit_logs = << >>
    /\ redis = [k \in Keys |-> Null]
    /\ pc = [w \in Workers |-> "idle"]
    /\ loc = [w \in Workers |-> IdleLoc]
    /\ resp = [w \in Workers |-> NoResponse]
    /\ first_resp = [k \in Keys |-> Null]
    /\ handler_runs = [k \in Keys |-> 0]
    /\ adapter_calls = [i \in 1..MaxTx |-> [m \in Methods |-> 0]]
    /\ faults = 0

NextRetry ==
    \/ initialize_payment("w1", "k1", "mpesa", 10)
    \/ \E e \in 1..MaxEvents : process_webhook("w1", e)
    \/ retry_failed_webhooks("w1")
    \/ \E t \in Instants : Tick(t)
    \/ InitializeSteps("w1")
    \/ IP_Return("w1")
    \/ RF_Loop("w1")
    \/ PW_Load("w1")
    \/ PW_Commit("w1")
    \/ PW_Audit("w1")

SpecRetry == InitRetry /\ [][NextRetry]_vars

\* every operation of WebhookService on the events of one transaction, one call
\* at a time: the state after initialize_payment("k1", "mpesa", 10) was
\* accepted by the adapter under the reference r1
InitEvents ==
    /\ transactions = << [NewTransaction("k1", "mpesa", 10) EXCEPT
                             !.provider_transaction_id = "r1",
                             !.provider_response = {"result"},
                             !.status = PROCESSING] >>
    /\ webhook_events = << >>
    /\ audit_logs = << AuditRow(1, "payment.initiated", "none", "none", 0),
                       AuditRow(1, "payment.processing", "none", "none", 0) >>
    /\ redis = [k \in Keys |-> Null]
    /\ pc = [w \in Workers |-> "idle"]
    /\ loc = [w \in Workers |-> IdleLoc]
    /\ resp = [w \in Workers |-> NoResponse]
    /\ first_resp = [k \in Keys |-> Null]
    /\ handler_runs = [k \in Keys |-> 0]
    /\ adapter_calls = [i \in 1..MaxTx |-> [m \in Methods |->
                          IF i = 1 /\ m = "initialize_payment" THEN 1 ELSE 0]]
    /\ faults = 0

NextEvents ==
    \/ \E signature \in {"absent", "bad"} :
         ServiceReceiveWebhook("w1", "mpesa", [ref |-> "r1", status |-> "completed"],
                               signature, TRUE)
    \/ \E e \in 1..MaxEvents : mark_webhook_as_processed("w1", e)
    \/ retry_failed_webhooks("w1")
    \/ \E t \in {RETRY_SCHEDULE[1], RETRY_SCHEDULE[2]} : Tick(t)
    \/ RW_Verify("w1")
    \/ RF_Loop("w1")
    \/ PW_Load("w1")
    \/ PW_Commit("w1")
    \/ PW_Audit("w1")

SpecEvents == InitEvents /\ [][NextEvents]_vars

\* the providers' callbacks to POST /webhooks/{provider}, before and after the
\* payment they report on is known
NextPush ==
    \/ initialize_payment("w1", "k1", "mpesa", 10)
    \/ \E provider \in {"mpesa", "stripe", "cpay"} :
         HttpWebhook("w1", provider, [ref |-> "r1", status |-> "completed"], "bad")
    \/ InitializeSteps("w1")
    \/ IP_Return("w1")
    \/ WebhookSteps("w1")

SpecPush == Init /\ [][NextPush]_vars

\* the scheduler alone, invoked again and again while time advances
NextSchedule ==
    \/ retry_failed_webhooks("w1")
    \/ \E t \in Instants : Tick(t)
    \/ RF_Loop("w1")
    \/ PW_Load("w1")

SpecSchedule ==
    /\ InitRetry
    /\ [][NextSchedule]_vars
    /\ WF_vars(\E t \in Instants : Tick(t))
    /\ WF_vars(NextSchedule)

\* two workers processing stored webhook events of one transaction: the state
\* after initialize_payment("k1", "mpesa", 10) was accepted by the adapter
\* under the reference r1 and receive_webhook stored two unsigned events
InitConc ==
    /\ transactions = << [NewTransaction("k1", "mpesa", 10) EXCEPT
                             !.provider_transaction_id = "r1",
                             !.provider_response = {"result"},
                             !.status = PROCESSING] >>
    /\ webhook_events \in
         { << [NewWebhookEvent("mpesa", [ref |-> "r1", status |-> s1], "absent")
                 EXCEPT !.verified = TRUE],
              [NewWebhookEvent("mpesa", [ref |-> "r1", status |-> s2], "absent")
                 EXCEPT !.verified = TRUE] >> : s1, s2 \in AdapterStatus }
    /\ audit_logs = << AuditRow(1, "payment.initiated", "none", "none", 0),
                       AuditRow(1, "payment.processing", "none", "none", 0) >>
    /\ redis = [k \in Keys |-> Null]
    /\ pc = [w \in Workers |-> "idle"]
    /\ loc = [w \in Workers |-> IdleLoc]
    /\ resp = [w \in Workers |-> NoResponse]
    /\ first_resp = [k \in Keys |-> Null]
    /\ handler_runs = [k \in Keys |-> 0]
    /\ adapter_calls = [i \in 1..MaxTx |-> [m \in Methods |->
                          IF i = 1 /\ m = "initialize_payment" THEN 1 ELSE 0]]
    /\ faults = 0

NextConc ==
    \/ \E w \in Workers, e \in 1..MaxEvents : HttpRetryWebhook(w, e)
    \/ \E w \in Workers : PW_Load(w)
    \/ \E w \in Workers : PW_Commit(w)
    \/ \E w \in Workers : PW_Audit(w)
    \/ \E w \in Workers : Crash(w)

SpecConc == InitConc /\ [][NextConc]_vars

\* -------------------------------------------------------------- properties

Quiescent == \A w \in Workers : pc[w] = "idle"

\* C1: every change of a transaction's status, by any operation, is one of the
\* five legal transitions.
C1_OnlyLegalTransitions ==
    [][LET legal == { <<PENDING, PROCESSING>>, <<PENDING, FAILED>>,
                      <<PROCESSING, COMPLETED>>, <<PROCESSING, FAILED>>,
                      <<COMPLETED, REFUNDED>> }
       IN \A i \in TxIds :
            transactions'[i].status # transactions[i].status
              => <<transactions[i].status, transactions'[i].status>> \in legal]_vars

\* the status a derived webhook status would move the transaction to
WebhookTarget(current, status) ==
    IF status = "completed" THEN COMPLETED
    ELSE IF status = "failed" THEN FAILED
    ELSE IF status = "refunded" THEN REFUNDED
    ELSE current

\* C2: when process_webhook derives a status whose transition is not in the
\* legal table, the call fails (the event stays unprocessed) and the
\* transaction's status is left unchanged.
C2_IllegalTransitionRejected ==
    [][\A w \in Workers :
         LET i == loc[w].tx
             e == loc[w].ev
             target == WebhookTarget(transactions[i].status, loc[w].status)
             illegal == (TransactionStatus \X TransactionStatus) \
                        { <<PENDING, PROCESSING>>, <<PENDING, FAILED>>,
                          <<PROCESSING, COMPLETED>>, <<PROCESSING, FAILED>>,
                          <<COMPLETED, REFUNDED>> }
         IN (/\ pc[w] = "pw_commit"
             /\ pc'[w] # "pw_commit"
             /\ target # transactions[i].status
             /\ <<transactions[i].status, target>> \in illegal)
            => /\ transactions'[i].status = transactions[i].status
               /\ ~webhook_events'[e].processed]_vars

\* C3: initialize_payment with an idempotency key a stored transaction already
\* carries goes straight to its return with that transaction, and neither the
\* lookup nor the return changes a transaction, the audit log or the count of
\* adapter calls; the caller gets the stored record as it is.
C3_ExistingKeyReturned ==
    [][\A w \in Workers :
         LET existing == FindByKey(loc[w].req.key) IN
         /\ (pc[w] = "ip_check" /\ existing # 0 /\ pc'[w] \notin {"ip_check", "idle"})
              => /\ pc'[w] = "ip_return"
                 /\ loc'[w].tx = existing
                 /\ ~loc'[w].raised
                 /\ transactions' = transactions
                 /\ audit_logs' = audit_logs
                 /\ adapter_calls' = adapter_calls
         /\ (pc[w] = "ip_return" /\ ~loc[w].raised /\ pc'[w] = "idle" /\ faults' = faults)
              => /\ resp'[w].body = SuccessBody(TransactionDump(loc[w].tx))
                 /\ transactions' = transactions
                 /\ audit_logs' = audit_logs
                 /\ adapter_calls' = adapter_calls]_vars

\* C3 witness: a call whose amount differs from the stored one is about to
\* return a stored transaction that has already moved on to COMPLETED.
C3_Witness ==
    \E w \in Workers :
        /\ pc[w] = "ip_return"
        /\ ~loc[w].raised
        /\ loc[w].tx \in TxIds
        /\ transactions[loc[w].tx].amount # loc[w].amount
        /\ transactions[loc[w].tx].status = COMPLETED
        /\ Len(transactions) < MaxTx

\* the audit rows recording that transaction i went from status a to status b
TransitionRows(i, a, b) ==
    {n \in DOMAIN audit_logs :
        /\ audit_logs[n].transaction_id = i
        /\ audit_logs[n].old_status = a
        /\ audit_logs[n].new_status = b}

\* C4: at most one process_webhook call observes PROCESSING and performs the
\* PROCESSING -> COMPLETED change of a transaction: at most one audit row
\* records that transition.
C4_SingleCompletion ==
    \A i \in TxIds : Cardinality(TransitionRows(i, PROCESSING, COMPLETED)) <= 1

\* the statuses the audit rows of transaction i account for
RecordedStatuses(i) ==
    {PENDING} \cup
    {audit_logs[n].new_status : n \in {m \in DOMAIN audit_logs :
                                        audit_logs[m].transaction_id = i}} \cup
    {st \in TransactionStatus :
        \E n \in DOMAIN audit_logs :
            /\ audit_logs[n].transaction_id = i
            /\ \/ st = PROCESSING /\ audit_logs[n].event_type = "payment.processing"
               \/ st = FAILED /\ audit_logs[n].event_type = "payment.failed"
               \/ st = REFUNDED /\ audit_logs[n].event_type = "refund.completed"}

\* C5: whenever no handler is running, every transaction's status is accounted
\* for by an audit row and every processed event has its audit row: no status
\* change survives a crash or a failed audit insert without its audit row.
C5_StatusChangeHasAuditRow ==
    Quiescent =>
        /\ \A i \in TxIds : transactions[i].status \in RecordedStatuses(i)
        /\ \A e \in EventIds :
              webhook_events[e].processed
                => \E n \in DOMAIN audit_logs : audit_logs[n].webhook_event_id = e

PaymentEndpoints == {"initialize", "get", "verify", "refund"}

\* C6: a request to a payments endpoint that carries no X-API-Key header, or
\* an invalid one, is answered 401.
C6_ApiKeyRequired ==
    \A w \in Workers :
        (resp[w].endpoint \in PaymentEndpoints /\ resp[w].api_key # "valid")
            => resp[w].code = 401

\* a request carrying the idempotency key k is taken up by worker w in this step
RequestArrives(w, k) ==
    /\ pc[w] = "idle"
    /\ \/ pc'[w] # "idle" /\ loc'[w].req.key = k
       \/ pc'[w] = "idle" /\ resp'[w] # resp[w] /\ resp'[w].key = k

\* C7: a request that arrives with an idempotency key for which an answer was
\* already given within the TTL is answered from the cache: the wrapped handler
\* is not executed again, and no transaction or adapter call is added.
C7_HandlerRunsOnce ==
    [][\A w \in Workers, k \in Keys :
         (RequestArrives(w, k) /\ first_resp[k] # Null)
            => /\ pc'[w] = "idle"
               /\ resp'[w].replayed
               /\ handler_runs' = handler_runs
               /\ transactions' = transactions
               /\ adapter_calls' = adapter_calls]_vars

\* C7 witness: the second request of a key was answered from the cache while
\* the handler ran once for that key and the adapter was called once.
C7_Witness ==
    \E w \in Workers :
        /\ resp[w].replayed
        /\ resp[w].key \in Keys
        /\ handler_runs[resp[w].key] = 1
        /\ FindByKey(resp[w].key) # 0
        /\ adapter_calls[FindByKey(resp[w].key)]["initialize_payment"] = 1

\* a worker's last answer is a replay of the first answer given for its key
Replayed(w) ==
    /\ resp[w].replayed
    /\ resp[w].key \in Keys
    /\ first_resp[resp[w].key] # Null

\* C8: the body replayed from the idempotency cache is identical to the body
\* of the first answer given for that key.
C8_ReplayedBodyIdentical ==
    \A w \in Workers :
        Replayed(w) => resp[w].body = first_resp[resp[w].key].body

C10_RepeatAnswered200 ==
    \A w \in Workers :
        (Replayed(w) /\ first_resp[resp[w].key].code = 201) => resp[w].code = 200

\* C11: the idempotency cache holds only successful responses: no entry
\* carries an error status code.
C11_OnlySuccessCached ==
    \A k \in Keys : redis[k] # Null => ReplayStatus(redis[k]) < 400

\* C12: a request to an @idempotent endpoint whose Idempotency-Key is missing
\* or shorter than 10 characters (the keys "k1" and "k2" are 2 characters
\* long) is answered 400; the handler is not executed and nothing is cached under
\* such a key.
C12_ShortKeyRejected ==
    /\ \A w \in Workers :
          (/\ resp[w].endpoint \in {"initialize", "refund"}
           /\ (resp[w].key = NoKey \/ Len(resp[w].key) < 10))
             => resp[w].code = 400
    /\ \A k \in Keys : Len(k) < 10 => (redis[k] = Null /\ handler_runs[k] = 0)

\* C13: a call of initialize_payment that created a transaction stores it in
\* PENDING first and returns with it in PROCESSING, carrying the adapter's
\* transaction id, when the adapter returned, and otherwise raises with the
\* transaction in FAILED; it ends in no other way.
C13_InitializeOutcome ==
    [][\A w \in Workers :
         LET i == loc'[w].tx IN
         /\ (pc[w] = "ip_insert" /\ pc'[w] = "ip_audit_initiated")
              => transactions'[i].status = PENDING
         /\ (/\ pc[w] \in {"ip_audit_initiated", "ip_provider",
                            "ip_audit_processing", "ip_audit_failed"}
             /\ pc'[w] = "ip_return")
              => IF transactions'[i].provider_transaction_id # NoRef
                 THEN transactions'[i].status = PROCESSING /\ ~loc'[w].raised
                 ELSE transactions'[i].status = FAILED /\ loc'[w].raised]_vars

\* C14: verify_payment on a COMPLETED or REFUNDED transaction never reaches
\* the adapter: the call answers at once with the stored record, and the
\* transactions, the audit log and the adapter-call counts stay as they were.
C14_VerifyTerminalNoOp ==
    [][\A w \in Workers, i \in TxIds :
         (pc[w] = "idle" /\ transactions[i].status \in {COMPLETED, REFUNDED})
           => /\ ~(pc'[w] = "v_provider" /\ loc'[w].tx = i)
              /\ adapter_calls'[i]["verify_payment"] = adapter_calls[i]["verify_payment"]
              /\ (/\ pc'[w] = "idle"
                  /\ resp'[w] # resp[w]
                  /\ resp'[w].endpoint = "verify"
                  /\ resp'[w].code = 200
                  /\ resp'[w].body["data"].id = i)
                   => /\ resp'[w].body = SuccessBody(TransactionDump(i))
                      /\ transactions' = transactions
                      /\ audit_logs' = audit_logs
                      /\ adapter_calls' = adapter_calls]_vars

\* C14 witness: verify_payment answered with a REFUNDED record, which only the
\* immediate return can produce.
C14_Witness ==
    \E w \in Workers :
        /\ resp[w].endpoint = "verify"
        /\ resp[w].code = 200
        /\ resp[w].body["data"].status = REFUNDED
        /\ pc[w] = "idle"

\* the places of a worker inside PaymentService.refund_payment
RefundPlaces == {"r_audit_initiated", "r_provider", "r_audit_completed",
                 "r_audit_failed", "r_return"}

\* C15: refund_payment goes past its entry only for a COMPLETED transaction;
\* refused at the entry it changes no transaction, audit row or adapter count;
\* inside the call the transaction changes only in the step in which the
\* adapter's refund_payment returns, and that step makes it REFUNDED.
C15_RefundOnlyCompleted ==
    [][\A w \in Workers :
         /\ (pc[w] = "idle" /\ pc'[w] = "r_audit_initiated")
              => transactions[loc'[w].tx].status = COMPLETED
         /\ (/\ pc[w] = "idle"
             /\ pc'[w] = "idle"
             /\ resp'[w] # resp[w]
             /\ resp'[w].endpoint = "refund_payment")
              => /\ "error" \in DOMAIN resp'[w].body
                 /\ transactions' = transactions
                 /\ audit_logs' = audit_logs
                 /\ adapter_calls' = adapter_calls
         /\ (pc[w] \in RefundPlaces /\ transactions' # transactions)
              => /\ pc[w] = "r_provider"
                 /\ pc'[w] = "r_audit_completed"
         /\ (pc[w] = "r_provider" /\ pc'[w] = "r_audit_completed")
              => /\ transactions[loc[w].tx].status = COMPLETED
                 /\ transactions'[loc[w].tx].status = REFUNDED
                 /\ adapter_calls'[loc[w].tx]["refund_payment"]
                      = adapter_calls[loc[w].tx]["refund_payment"] + 1]_vars

\* C15 witness: a refund was refused for the status of its transaction after
\* another refund had gone through.
C15_Witness ==
    \E w \in Workers :
        /\ resp[w].endpoint = "refund_payment"
        /\ resp[w].body = ErrorBody("Can only refund completed transactions")
        /\ \E i \in TxIds : transactions[i].status = REFUNDED

\* C16: when the adapter's refund_payment raises, the step that calls it and
\* the audit step that follows leave every transaction as it was, and the
\* call returns with the transaction still COMPLETED.
C16_FailedRefundKeepsCompleted ==
    [][\A w \in Workers :
         /\ (pc[w] = "r_provider" /\ pc'[w] = "r_audit_failed")
              => /\ transactions' = transactions
                 /\ transactions'[loc[w].tx].status = COMPLETED
         /\ (/\ pc[w] = "r_audit_failed"
             /\ loc[w].status \in {"ValueError", "RefundError"}
             /\ pc'[w] = "r_return")
              => /\ transactions' = transactions
                 /\ transactions'[loc[w].tx].status = COMPLETED
                 /\ webhook_events' = webhook_events
                 /\ redis' = redis]_vars

\* C16 witness: a refund the adapter refused has returned; the transaction is
\* COMPLETED and the last audit row is refund.failed.
C16_Witness ==
    \E w \in Workers :
        /\ pc[w] = "r_return"
        /\ loc[w].status = "RefundError"
        /\ transactions[loc[w].tx].status = COMPLETED
        /\ adapter_calls[loc[w].tx]["refund_payment"] >= 1
        /\ audit_logs # << >>
        /\ audit_logs[Len(audit_logs)].event_type = "refund.failed"

\* C17: a refund the adapter's refund_payment rejects by raising is answered
\* by POST /payments/{id}/refund with 400.
C17_RejectedRefundIs400 ==
    [][\A w \in Workers :
         (/\ pc[w] = "r_return"
          /\ loc[w].req.endpoint = "refund"
          /\ loc[w].raised
          /\ loc[w].status = "RefundError"
          /\ pc'[w] = "idle"
          /\ resp'[w] # resp[w])
           => resp'[w].code = 400]_vars

\* the transactions that carry the provider reference ref
Carriers(ref) == {i \in TxIds : transactions[i].provider_transaction_id = ref}

\* C18: process_webhook on a verified, unprocessed event whose adapter result
\* is 'completed' for the reference of the one PROCESSING transaction that
\* carries it finds that transaction, and its commit makes the transaction
\* COMPLETED with completed_at set, links the event to it and marks the event
\* processed.
C18_CompletedWebhookApplied ==
    [][\A w \in Workers :
         /\ (pc[w] = "pw_load" /\ pc'[w] # "pw_load" /\ faults' = faults)
              => LET ev == webhook_events[loc[w].ev]
                     result == handle_webhook(ev.payload)
                 IN (/\ ~ev.processed
                     /\ ev.verified
                     /\ ev.provider \in PROVIDERS
                     /\ result.status = "completed"
                     /\ Cardinality(Carriers(result.transaction_id)) = 1
                     /\ \A i \in Carriers(result.transaction_id) :
                           transactions[i].status = PROCESSING)
                    => /\ pc'[w] = "pw_commit"
                       /\ loc'[w].tx \in Carriers(result.transaction_id)
         /\ (/\ pc[w] = "pw_commit"
             /\ pc'[w] = "pw_audit"
             /\ loc[w].status = "completed"
             /\ transactions[loc[w].tx].status = PROCESSING)
              => /\ transactions'[loc[w].tx].status = COMPLETED
                 /\ transactions'[loc[w].tx].completed_at
                 /\ webhook_events'[loc[w].ev].transaction_id = loc[w].tx
                 /\ webhook_events'[loc[w].ev].processed]_vars

\* C18 witness: an event is processed and linked to transaction 1, which is
\* COMPLETED with completed_at set, and the audit row of the event records
\* processing -> completed.
C18_Witness ==
    \E e \in EventIds :
        /\ webhook_events[e].processed
        /\ webhook_events[e].transaction_id = 1
        /\ transactions[1].status = COMPLETED
        /\ transactions[1].completed_at
        /\ \E n \in DOMAIN audit_logs :
              /\ audit_logs[n].webhook_event_id = e
              /\ audit_logs[n].old_status = PROCESSING
              /\ audit_logs[n].new_status = COMPLETED

\* C19: the verification step of receive_webhook leaves the event's verified
\* flag equal to the adapter's verify_webhook_signature when a signature and
\* the raw body were both supplied (false when no adapter is registered for
\* the provider), and true when either is absent.
C19_VerifiedFlag ==
    [][\A w \in Workers :
         (pc[w] = "rw_verify" /\ pc'[w] # "rw_verify" /\ faults' = faults)
           => webhook_events'[loc[w].ev].verified
                = IF loc[w].signature # "absent" /\ loc[w].raw_payload
                  THEN /\ loc[w].provider \in PROVIDERS
                       /\ verify_webhook_signature(loc[w].provider, loc[w].signature)
                  ELSE TRUE]_vars

\* C19 witness: of two stored mpesa events with the same invalid signature,
\* the one received with its raw body is unverified and the one received
\* without it is verified.
C19_Witness ==
    \E e1, e2 \in EventIds :
        /\ webhook_events[e1].provider = "mpesa"
        /\ webhook_events[e2].provider = "mpesa"
        /\ webhook_events[e1].signature = "bad"
        /\ webhook_events[e2].signature = "bad"
        /\ ~webhook_events[e1].verified
        /\ webhook_events[e2].verified
        /\ Quiescent

\* C20: process_webhook on an unprocessed event with verified = false returns
\* failure, adds exactly 1 to retry_count, sets error_message to 'Webhook
\* signature not verified', leaves processed = false and every other event as
\* it was, and changes no transaction and no audit row.
C20_UnverifiedRejected ==
    [][\A w \in Workers :
         (/\ pc[w] = "pw_load"
          /\ pc'[w] # "pw_load"
          /\ faults' = faults
          /\ ~webhook_events[loc[w].ev].processed
          /\ ~webhook_events[loc[w].ev].verified)
           => /\ webhook_events' =
                   [webhook_events EXCEPT
                      ![loc[w].ev].retry_count = @ + 1,
                      ![loc[w].ev].error_message = "Webhook signature not verified"]
              /\ ~webhook_events'[loc[w].ev].processed
              /\ transactions' = transactions
              /\ audit_logs' = audit_logs
              /\ pc'[w] = "idle"
              /\ resp'[w].body["success"] = "false"]_vars

\* C20 witness: an unverified event that names the reference of a PROCESSING
\* transaction has been refused once.
C20_Witness ==
    \E e \in EventIds :
        /\ ~webhook_events[e].verified
        /\ ~webhook_events[e].processed
        /\ webhook_events[e].retry_count = 1
        /\ webhook_events[e].error_message = "Webhook signature not verified"
        /\ Carriers(webhook_events[e].payload.ref) # {}
        /\ \A i \in Carriers(webhook_events[e].payload.ref) :
              transactions[i].status = PROCESSING
        /\ Quiescent

\* the audit rows written for webhook event e
EventRows(e) == {n \in DOMAIN audit_logs : audit_logs[n].webhook_event_id = e}

\* C21: process_webhook on an event that is already processed returns success
\* and changes no event, no transaction and no audit row; and whenever a
\* process_webhook call returns with its event processed, exactly one audit
\* row exists for that event (so receive; process; process leaves one).
C21_ProcessIdempotent ==
    [][\A w \in Workers :
         (pc[w] \in {"pw_load", "pw_audit"} /\ pc'[w] = "idle")
           => /\ (webhook_events[loc[w].ev].processed /\ pc[w] = "pw_load")
                 => /\ webhook_events' = webhook_events
                    /\ transactions' = transactions
                    /\ audit_logs' = audit_logs
                    /\ resp'[w].body["success"] = "true"
              /\ webhook_events'[loc[w].ev].processed
                 => Cardinality(EventRows(loc[w].ev)') = 1]_vars

\* worker w is inside a retry_failed_webhooks run
InRetryRun(w) == loc[w].req.endpoint = "retry_failed"

\* this step is a round of the loop of w over its queried events
LoopRound(w) == pc[w] = "rf_loop" /\ loc[w].batch # {} /\ loc'[w] # loc[w]

\* the event a round of the loop of w has just taken from the queried events
Taken(w) == CHOOSE e \in loc[w].batch : loc'[w].batch = loc[w].batch \ {e}

\* C22: retry_failed_webhooks queries the events with processed = false and
\* retry_count < 5; each round of its loop takes one of them and calls
\* process_webhook on it exactly when the time since created_at is at least
\* RETRY_SCHEDULE[min(retry_count, 4)] of [60, 300, 900, 3600, 21600]; every
\* call that returns success adds one to the count, and the count is returned.
C22_RetryEligibility ==
    [][\A w \in Workers :
         /\ (pc[w] = "idle" /\ pc'[w] = "rf_loop")
              => /\ loc'[w].batch =
                      {e \in EventIds : /\ ~webhook_events[e].processed
                                        /\ webhook_events[e].retry_count < 5}
                 /\ loc'[w].count = 0
         /\ LoopRound(w)
              => /\ \E e \in loc[w].batch : loc'[w].batch = loc[w].batch \ {e}
                 /\ LET e == Taken(w)
                        rc == webhook_events[e].retry_count
                        schedule == <<60, 300, 900, 3600, 21600>>
                        due == webhook_events[e].age
                                 >= schedule[(IF rc < 4 THEN rc ELSE 4) + 1]
                    IN /\ ~webhook_events[e].processed
                       /\ rc < 5
                       /\ due => (pc'[w] = "pw_load" /\ loc'[w].ev = e)
                       /\ ~due => pc'[w] = "rf_loop"
         /\ (pc[w] \in {"pw_load", "pw_audit"} /\ pc'[w] = "rf_loop")
              => loc'[w].count = loc[w].count +
                   (IF \/ pc[w] = "pw_load" /\ webhook_events[loc[w].ev].processed
                       \/ pc[w] = "pw_audit" /\ audit_logs' # audit_logs
                    THEN 1 ELSE 0)
         /\ (pc[w] = "rf_loop" /\ pc'[w] = "idle")
              => resp'[w].body["processed_count"] = loc[w].count]_vars

\* C22 witness: the scheduler is calling process_webhook on an event with
\* retry_count = 4 while an unprocessed event with retry_count = 5 is left out
\* of the run.
C22_Witness ==
    \E w \in Workers :
        /\ pc[w] = "pw_load"
        /\ InRetryRun(w)
        /\ webhook_events[loc[w].ev].retry_count = 4
        /\ \E e \in EventIds :
              /\ webhook_events[e].retry_count = 5
              /\ ~webhook_events[e].processed
              /\ e # loc[w].ev
              /\ e \notin loc[w].batch

\* C23: a round of the scheduler's loop that takes an unprocessed event with
\* retry_count = 1 (its attempt at receipt failed) when at least 60 s have
\* passed since the event was received calls process_webhook on it.
C23_RetryAfter60s ==
    [][\A w \in Workers :
         (/\ LoopRound(w)
          /\ webhook_events[Taken(w)].retry_count = 1
          /\ ~webhook_events[Taken(w)].processed
          /\ webhook_events[Taken(w)].age >= 60)
           => (pc'[w] = "pw_load" /\ loc'[w].ev = Taken(w))]_vars

\* WebhookService.get_dead_letter_queue
get_dead_letter_queue ==
    {e \in EventIds : /\ ~webhook_events[e].processed
                      /\ webhook_events[e].retry_count >= MAX_RETRY_ATTEMPTS}

C25_ProcessedAtAndRetryCount ==
    /\ [](\A e \in EventIds :
            webhook_events[e].processed => webhook_events[e].processed_at # NoTime)
    /\ [][\A e \in EventIds :
            webhook_events'[e].retry_count >= webhook_events[e].retry_count]_vars

\* C25 witness: an event that failed twice was marked processed by hand (it is
\* linked to no transaction) and carries the time of the marking, next to an
\* event processed by process_webhook.
C25_Witness ==
    \E e1, e2 \in EventIds :
        /\ webhook_events[e1].processed
        /\ webhook_events[e1].transaction_id = 0
        /\ webhook_events[e1].retry_count = 2
        /\ webhook_events[e1].processed_at >= 300
        /\ webhook_events[e2].processed
        /\ webhook_events[e2].transaction_id = 1
        /\ webhook_events[e2].processed_at # NoTime

\* C26: once an event has processed = true, no operation that starts later
\* changes its processed, processed_at, retry_count, error_message, verified
\* or transaction_id (the remaining steps of the call that set processed are
\* left aside).
C26_ProcessedEventFrozen ==
    [][(\A w \in Workers : pc[w] # "pw_audit")
        => \A e \in EventIds :
             webhook_events[e].processed
               => /\ webhook_events'[e].processed
                  /\ webhook_events'[e].processed_at = webhook_events[e].processed_at
                  /\ webhook_events'[e].retry_count = webhook_events[e].retry_count
                  /\ webhook_events'[e].error_message = webhook_events[e].error_message
                  /\ webhook_events'[e].verified = webhook_events[e].verified
                  /\ webhook_events'[e].transaction_id
                       = webhook_events[e].transaction_id]_vars

\* C27: POST /webhooks/{provider} answers HTTP 200 once the event is stored,
\* whatever became of its processing: success, failure, an invalid signature,
\* an unknown provider or no matching transaction.
C27_PushAnswered200 ==
    [][\A w \in Workers :
         (loc[w].req.endpoint = "webhook" /\ pc[w] # "idle" /\ pc'[w] = "idle")
           => /\ resp'[w].endpoint = "webhook"
              /\ resp'[w].code = 200]_vars

\* C27 witness: the last callback was answered 200 with success false, one
\* stored event is processed, and one is unverified with a failed attempt.
C27_Witness ==
    \E w \in Workers, e1, e2 \in EventIds :
        /\ resp[w].endpoint = "webhook"
        /\ resp[w].code = 200
        /\ resp[w].body["success"] = "false"
        /\ webhook_events[e1].processed
        /\ ~webhook_events[e2].verified
        /\ webhook_events[e2].retry_count = 1

\* the audit rows of transaction i whose event_data names st as the new status
RowsWithNewStatus(i, st) ==
    {n \in DOMAIN audit_logs : /\ audit_logs[n].transaction_id = i
                               /\ audit_logs[n].new_status = st}

\* C28: when no handler is running and no crash or failed audit insert has
\* happened, every transaction that has left PENDING has exactly one audit row
\* whose event_data contains the status it is now in.
C28_OneRowWithNewStatus ==
    (Quiescent /\ faults = 0)
      => \A i \in TxIds :
           transactions[i].status # PENDING
             => Cardinality(RowsWithNewStatus(i, transactions[i].status)) = 1

\* C29: when retry_failed_webhooks is invoked again and again while time
\* advances, every event whose processing keeps failing ends up in the
\* dead-letter queue; no event collects more than 5 failures; and no step of
\* a scheduler run calls process_webhook on an event of the queue.
C29_EventuallyDeadLetter ==
    /\ \A e \in 1..MaxEvents :
         (e \in EventIds) ~> [](e \in get_dead_letter_queue)
    /\ [](\A e \in EventIds : webhook_events[e].retry_count <= 5)
    /\ [][\A w \in Workers :
            (InRetryRun(w) /\ pc[w] = "rf_loop" /\ pc'[w] = "pw_load")
              => loc'[w].ev \notin get_dead_letter_queue]_vars

\* C29 witness: a scheduler run finds nothing to do because every event, the
\* unverified one among them, is in the dead-letter queue with 5 failures.
C29_Witness ==
    \E w \in Workers :
        /\ pc[w] = "rf_loop"
        /\ loc[w].batch = {}
        /\ loc[w].invoked_at = RETRY_SCHEDULE[5]
        /\ get_dead_letter_queue = EventIds
        /\ \E e \in EventIds : ~webhook_events[e].verified
        /\ \A e \in EventIds : webhook_events[e].retry_count = 5

\* C30: when a retry_failed_webhooks run returns and no time has passed since
\* it was invoked, no event is due for a retry any more: a second run at the
\* same instant would call process_webhook on nothing and change nothing.
C30_SchedulerIdempotent ==
    [][\A w \in Workers :
         (InRetryRun(w) /\ pc[w] = "rf_loop" /\ pc'[w] = "idle"
            /\ loc[w].invoked_at = Clock)
           => \A e \in EventIds :
                ~(/\ ~webhook_events'[e].processed
                  /\ webhook_events'[e].retry_count < 5
                  /\ webhook_events'[e].age
                       >= RETRY_SCHEDULE[(IF webhook_events'[e].retry_count < 4
                                          THEN webhook_events'[e].retry_count
                                          ELSE 4) + 1])]_vars

\* C31: verify_payment on a PENDING or PROCESSING transaction leaves the
\* status as it was or makes it COMPLETED (with completed_at set) or FAILED,
\* leaves it as it was when the adapter raised, and its audit step appends a
\* 'payment.<new status>' row for the transaction exactly when the status
\* differs from the one it loaded.
C31_VerifyOutcome ==
    [][\A w \in Workers :
         LET i == loc[w].tx IN
         /\ (/\ pc[w] = "v_provider"
             /\ pc'[w] \in {"v_audit", "v_audit_failed"}
             /\ loc[w].old_status \in {PENDING, PROCESSING}
             /\ transactions[i].status = loc[w].old_status)
              => /\ transactions'[i].status
                      \in {transactions[i].status, COMPLETED, FAILED}
                 /\ (transactions'[i].status = COMPLETED
                       /\ transactions[i].status # COMPLETED)
                      => transactions'[i].completed_at
                 /\ pc'[w] = "v_audit_failed" => transactions' = transactions
         /\ (/\ pc[w] = "v_audit"
             /\ pc'[w] # "v_audit"
             /\ loc[w].old_status \in {PENDING, PROCESSING})
              => ((loc[w].old_status # transactions[i].status)
                   <=> /\ Len(audit_logs') = Len(audit_logs) + 1
                       /\ audit_logs'[Len(audit_logs')].transaction_id = i
                       /\ audit_logs'[Len(audit_logs')].event_type
                            = PaymentEvent(transactions[i].status))]_vars

\* C32: when the adapter call of initialize_payment raises (a timeout or a
\* cancellation surfaces as an exception), the transaction is still PENDING
\* after the step, and the audit step that follows appends a
\* 'payment.verification_failed' row for it.
C32_CancelledInitStaysPending ==
    [][\A w \in Workers :
         LET i == loc[w].tx IN
         /\ (/\ pc[w] = "ip_provider"
             /\ pc'[w] = "ip_audit_failed"
             /\ adapter_calls' # adapter_calls)
              => transactions'[i].status = PENDING
         /\ (/\ pc[w] = "ip_audit_failed"
             /\ pc'[w] = "ip_return"
             /\ loc[w].provider \in PROVIDERS
             /\ transactions[i].provider_transaction_id = NoRef
             /\ Len(audit_logs') = Len(audit_logs) + 1)
              => audit_logs'[Len(audit_logs')].event_type = "payment.verification_failed"]_vars

\* ------------------------------------------------ MPesaProvider token cache
\* what the token endpoint may answer: an access_token (absent -> "") and an
\* expires_in in seconds; and the seconds that may pass between two readings
\* of time.time()
Tokens == {"", "t1"}
ExpiresIn == {30, 62, 120}
TimeSteps == {0, 1, 2, 59, 60}
SAFETY_MARGIN == 60

\* mpesa_provider.py:145-146: the token cache of a freshly built adapter, with
\* the bookkeeping of its calls: the clock (now), the clock reading on entry to
\* the last call, the expiry the endpoint stated for the cached token, the
\* number of calls and the number of GETs sent to the token endpoint
NewMPesaProvider ==
    [_access_token |-> NoToken, _token_expiry |-> 0, now |-> 0, entered_at |-> 0,
     stated_expiry |-> 0, calls |-> 0, fetches |-> 0]

\* providers/__init__.py:14-33: get_provider builds a new adapter object
MPesaProvider(w) ==
    /\ pc[w] = "idle"
    /\ pc' = [pc EXCEPT ![w] = "mp_ready"]
    /\ loc' = [loc EXCEPT ![w].adapter = NewMPesaProvider]
    /\ UNCHANGED <<transactions, webhook_events, audit_logs, redis, resp,
                   first_resp, handler_runs, adapter_calls, faults>>

\* mpesa_provider.py:677: the cached token is truthy and not past _token_expiry
TokenValid(adapter, now) ==
    /\ adapter._access_token \notin {NoToken, ""}
    /\ now < adapter._token_expiry

StoreToken_no_margin(adapter, token, now, expires_in) ==
    [adapter EXCEPT !._access_token = token, !._token_expiry = now + expires_in]

\* mpesa_provider.py:694-697: store the token with its expiry less the margin
StoreToken(adapter, token, now, expires_in) ==
    [adapter EXCEPT !._access_token = token,
                    !._token_expiry = now + expires_in - SAFETY_MARGIN]

\* mpesa_provider.py:675-700, called by _post (line 706) before each outbound
\* request: return the cached token, or GET a new one and cache it; a failing
\* GET raises and leaves the cache as it was
_get_access_token(w) ==
    /\ pc[w] = "mp_ready"
    /\ loc[w].adapter.calls < MaxCalls + 1
    /\ \E d \in TimeSteps :
         LET t1 == loc[w].adapter.now + d
             entered == [loc[w].adapter EXCEPT !.now = t1, !.entered_at = t1,
                                               !.calls = @ + 1]
         IN
         IF TokenValid(loc[w].adapter, t1)
         THEN loc' = [loc EXCEPT ![w].adapter = entered]
         ELSE \/ loc' = [loc EXCEPT ![w].raised = TRUE,
                                    ![w].adapter = [entered EXCEPT !.fetches = @ + 1]]
              \/ \E token \in Tokens, expires_in \in ExpiresIn, d2 \in {0, 1} :
                   loc' = [loc EXCEPT
                       ![w].raised = FALSE,
                       ![w].adapter = StoreToken(
                           [entered EXCEPT !.fetches = @ + 1, !.now = t1 + d2,
                                           !.stated_expiry = t1 + d2 + expires_in],
                           token, t1 + d2, expires_in)]
    /\ UNCHANGED <<transactions, webhook_events, audit_logs, redis, pc, resp,
                   first_resp, handler_runs, adapter_calls, faults>>

\* the handler returns and the adapter object is dropped
DropProvider(w) ==
    /\ pc[w] = "mp_ready"
    /\ pc' = [pc EXCEPT ![w] = "idle"]
    /\ loc' = [loc EXCEPT ![w] = IdleLoc]
    /\ UNCHANGED <<transactions, webhook_events, audit_logs, redis, resp,
                   first_resp, handler_runs, adapter_calls, faults>>

\* an adapter object belongs to the one handler that built it, so the cache is
\* followed in a single handler
TokenWorkers == {"w1"}

NextToken ==
    \/ \E w \in TokenWorkers : MPesaProvider(w)
    \/ \E w \in TokenWorkers : _get_access_token(w)
    \/ \E w \in TokenWorkers : DropProvider(w)

SpecToken == Init /\ [][NextToken]_vars

\* C33: a call of _get_access_token performs no token fetch exactly when a
\* token is cached and more than 60 s remain, at the time of the call, before
\* the expiry the token endpoint stated; so a call with 60 s or less remaining
\* or with no token cached fetches, and calls inside the window reuse the one
\* token fetched.
C33_TokenCache ==
    [][\A w \in TokenWorkers :
         (/\ pc[w] = "mp_ready"
          /\ pc'[w] = "mp_ready"
          /\ loc'[w].adapter.calls = loc[w].adapter.calls + 1)
           => ((loc'[w].adapter.fetches = loc[w].adapter.fetches)
                <=> /\ loc[w].adapter._access_token \notin {NoToken, ""}
                    /\ loc[w].adapter.stated_expiry - loc'[w].adapter.entered_at > 60)]_vars

\* a second call made with 61 s remaining reused the token of the first
C33_Witness ==
    \E w \in TokenWorkers :
        /\ pc[w] = "mp_ready"
        /\ loc[w].adapter.calls = 2
        /\ loc[w].adapter.fetches = 1
        /\ loc[w].adapter._access_token = "t1"
        /\ loc[w].adapter.stated_expiry - loc[w].adapter.entered_at = 61

\* ------------------------------ verify_payment racing with process_webhook
\* one handler verifies the PROCESSING transaction of InitConc while another
\* processes the stored events that refer to it
NextRace ==
    \/ \E id \in 1..MaxTx : HttpVerify("w1", id, "valid")
    \/ V_Provider("w1")
    \/ V_Audit("w1")
    \/ V_AuditFailed("w1")
    \/ \E e \in 1..MaxEvents : process_webhook("w2", e)
    \/ PW_Load("w2")
    \/ PW_Commit("w2")
    \/ PW_Audit("w2")

SpecRace == InitConc /\ [][NextRace]_vars

\* C34: the commit of verify_payment never replaces a status COMPLETED that
\* another operation stored after verify_payment loaded the transaction: as in
\* either sequential order, a verify_payment that meets COMPLETED leaves it.
C34_VerifySerialised ==
    [][\A w \in Workers :
         (/\ pc[w] = "v_provider"
          /\ pc'[w] = "v_audit"
          /\ transactions[loc[w].tx].status = COMPLETED)
           => transactions'[loc[w].tx].status = COMPLETED]_vars

\* ------------------------------------------- two refund_payment calls racing
\* a transaction that verify_payment completed after every audit insert so far
\* had failed (initialize_payment left at line 63, verify_payment at line 185):
\* COMPLETED, with no provider_transaction_id and no audit row
InitRefundRace ==
    /\ transactions = << [NewTransaction("k1", "mpesa", 10) EXCEPT
                             !.provider_response = {"result"},
                             !.status = COMPLETED,
                             !.completed_at = TRUE] >>
    /\ webhook_events = << >>
    /\ audit_logs = << >>
    /\ redis = [k \in Keys |-> Null]
    /\ pc = [w \in Workers |-> "idle"]
    /\ loc = [w \in Workers |-> IdleLoc]
    /\ resp = [w \in Workers |-> NoResponse]
    /\ first_resp = [k \in Keys |-> Null]
    /\ handler_runs = [k \in Keys |-> 0]
    /\ adapter_calls = [i \in 1..MaxTx |-> [m \in Methods |->
                          IF i = 1 /\ m = "verify_payment" THEN 1 ELSE 0]]
    /\ faults = MaxFaults

NextRefundRace ==
    \/ \E w \in Workers, id \in 1..MaxTx : refund_payment(w, id)
    \/ \E w \in Workers : R_AuditInitiated(w)
    \/ \E w \in Workers : R_Provider(w)
    \/ \E w \in Workers : R_AuditCompleted(w)
    \/ \E w \in Workers : R_AuditFailed(w)
    \/ \E w \in Workers : R_Return(w)

SpecRefundRace == InitRefundRace /\ [][NextRefundRace]_vars

\* the 'refund.completed' audit rows of transaction i
RefundCompletedRows(i) ==
    {n \in 1..Len(audit_logs) : /\ audit_logs[n].transaction_id = i
                                /\ audit_logs[n].event_type = "refund.completed"}

\* C35: of the refund_payment calls running on one transaction, a call reaches
\* the adapter's refund_payment only while the transaction is still COMPLETED
\* (a call that comes second to a successful refund is rejected instead), and
\* the transaction never has more than one 'refund.completed' audit row.
C35_OneRefund ==
    /\ [][\A w \in Workers :
            (/\ pc[w] = "r_provider"
             /\ adapter_calls'[loc[w].tx]["refund_payment"]
                  = adapter_calls[loc[w].tx]["refund_payment"] + 1)
              => transactions[loc[w].tx].status = COMPLETED]_vars
    /\ [](\A i \in TxIds : Cardinality(RefundCompletedRows(i)) <= 1)

\* ---------------------- concurrent POST /payments/initialize with one key
NextInitRace ==
    \/ \E w \in Workers, provider \in PROVIDERS :
         HttpInitialize(w, "k1", "valid", TRUE, provider, 10)
    \/ \E w \in Workers : IP_Check(w)
    \/ \E w \in Workers : IP_Insert(w)
    \/ \E w \in Workers : IP_AuditInitiated(w)
    \/ \E w \in Workers : IP_Provider(w)
    \/ \E w \in Workers : IP_AuditProcessing(w)
    \/ \E w \in Workers : IP_AuditFailed(w)
    \/ \E w \in Workers : HttpInitializeReturn(w)
    \/ \E w \in Workers : Crash(w)
    \/ \E k \in Keys : Expire(k)

SpecInitRace == Init /\ [][NextInitRace]_vars

\* the transactions stored under idempotency key k
StoredUnder(k) == {i \in TxIds : transactions[i].idempotency_key = k}

\* C36: however the POST /payments/initialize requests carrying one
\* Idempotency-Key interleave, at most one transaction is stored under the key
\* and the adapter's initialize_payment is called at most once for it.
C36_OneTransactionPerKey ==
    \A k \in Keys :
        /\ Cardinality(StoredUnder(k)) <= 1
        /\ \A i \in StoredUnder(k) : adapter_calls[i]["initialize_payment"] <= 1

\* two requests ran the handler for k1 at once; one stored the transaction and
\* called the adapter, the other lost the insert and raised
C36_Witness ==
    /\ handler_runs["k1"] = 2
    /\ Cardinality(StoredUnder("k1")) = 1
    /\ \E i \in StoredUnder("k1") : adapter_calls[i]["initialize_payment"] = 1
    /\ \E w \in Workers : pc[w] = "ip_return" /\ loc[w].raised /\ loc[w].tx = 0

\* ------------------------------------- unverified events in the pipeline
\* one handler receives deliveries for the PROCESSING transaction of
\* InitEvents (an unsigned one is stored verified, a badly signed one is not)
\* while another runs retry_failed_webhooks, which calls process_webhook for
\* each stored event that is due
NextUnverified ==
    \/ \E signature \in {"absent", "bad"} :
         ServiceReceiveWebhook("w1", "mpesa", [ref |-> "r1", status |-> "completed"],
                               signature, TRUE)
    \/ RW_Verify("w1")
    \/ retry_failed_webhooks("w2")
    \/ \E t \in {RETRY_SCHEDULE[2], RETRY_SCHEDULE[3]} : Tick(t)
    \/ RF_Loop("w2")
    \/ PW_Load("w2")
    \/ PW_Commit("w2")
    \/ PW_Audit("w2")

SpecUnverified == InitEvents /\ [][NextUnverified]_vars

\* receive_webhook is still between its insert and its verification of event e
BeingReceived(e) == \E w \in Workers : pc[w] = "rw_verify" /\ loc[w].ev = e

\* C37: an event whose verified flag is false is not processed and is linked
\* to no transaction, and once receive_webhook has returned for an event its
\* verified flag never changes, whatever process_webhook and
\* retry_failed_webhooks do.
C37_UnverifiedNeverApplied ==
    /\ [](\A e \in 1..Len(webhook_events) :
            ~webhook_events[e].verified
              => /\ ~webhook_events[e].processed
                 /\ webhook_events[e].transaction_id = 0)
    /\ [][\A e \in 1..Len(webhook_events) :
            ~BeingReceived(e) => webhook_events'[e].verified = webhook_events[e].verified]_vars

\* process_webhook has rejected an unverified event whose payload names the
\* PROCESSING transaction, and the transaction is as it was
C37_Witness ==
    \E e \in 1..Len(webhook_events) :
        /\ ~webhook_events[e].verified
        /\ ~BeingReceived(e)
        /\ webhook_events[e].retry_count >= 1
        /\ webhook_events[e].error_message = "Webhook signature not verified"
        /\ transactions[1].status = PROCESSING

\* C38: the commit of process_webhook for an event received on provider P
\* changes no transaction whose provider is not P.
C38_ProviderScoped ==
    [][\A w \in Workers :
         pc[w] = "pw_commit" /\ pc'[w] # "pw_commit"
           => \A i \in TxIds :
                transactions'[i] # transactions[i]
                  => transactions[i].provider = webhook_events[loc[w].ev].provider]_vars

\* the step in which worker w's process_webhook returns False: to the retry
\* loop without counting a success, or to its caller with the failure answer
ReturnsFalse(w) ==
    /\ pc[w] \in {"pw_load", "pw_audit"}
    /\ pc'[w] \notin {"pw_load", "pw_commit", "pw_audit"}
    /\ IF loc[w].req.endpoint = "retry_failed"
       THEN loc'[w].count = loc[w].count
       ELSE resp'[w].body = ("success" :> "false") @@ ("message" :> "failed")

\* C39: when process_webhook returns False, the event is left with processed
\* false and a retry_count one higher than before, and the call has changed no
\* transaction: it returns before its commit of lines 131-155, not after it.
C39_FailureChangesNothing ==
    [][\A w \in Workers :
         ReturnsFalse(w)
           => /\ ~webhook_events'[loc[w].ev].processed
              /\ webhook_events'[loc[w].ev].retry_count
                   = webhook_events[loc[w].ev].retry_count + 1
              /\ transactions' = transactions
              /\ pc[w] # "pw_audit"]_vars

\* C40: of the process_webhook calls running on one event, only one applies
\* it: the commit of lines 131-155 is never made for an event that another
\* call has already stored as processed, and no event has more than one audit
\* row.
C40_AppliedOnce ==
    /\ [][\A w \in Workers :
            pc[w] = "pw_commit" /\ pc'[w] = "pw_audit"
              => ~webhook_events[loc[w].ev].processed]_vars
    /\ [](\A e \in 1..Len(webhook_events) : Cardinality(EventRows(e)) <= 1)

====
